---- MODULE Spec2Model ----
(***************************************************************************)
(* A model of the Game Boy hardware core of gbars: the register file, the  *)
(* cartridge memory bank controllers, the console address bus, the         *)
(* instruction table and the CPU fetch/decode/execute state machine.       *)
(*                                                                         *)
(* Bytes are the naturals 0..255, shorts 0..65535.  An Option<u8> that is  *)
(* None is the value None (-1).  A Rust panic is recorded in the variable  *)
(* trap, and a panicked machine takes no further step.  Arithmetic that    *)
(* overflows panics in a build with overflow checks and wraps in one       *)
(* without: the build is chosen in the initial state (overflow_checks).    *)
(***************************************************************************)
EXTENDS Integers, Sequences, FiniteSets, TLC

VARIABLES
    state,               \* Cpu.state: the pipeline state
    instruction,         \* Cpu.instruction
    registers,           \* Cpu.registers
    disable_interrupts,  \* Cpu.disable_interrupts
    enable_interrupts,   \* Cpu.enable_interrupts
    mbc,                 \* the cartridge's memory bank controller
    console,             \* the Console's internal RAM regions and IE flag
    trap,                \* "none", or the kind of panic that ended the run
    paused,              \* the cycle counts passed to pause_for_cycles by the latest step
    ret,                 \* the latest call and what it returned
    steps,               \* number of CPU steps taken
    overflow_checks      \* TRUE: arithmetic overflow panics; FALSE: it wraps

vars == <<state, instruction, registers, disable_interrupts, enable_interrupts,
          mbc, console, trap, paused, ret, steps, overflow_checks>>

-----------------------------------------------------------------------------
(* Bounds of the model *)

\* The CPU takes at most this many steps in one run.
MaxSteps == 48

\* ROMs of the bus specification have up to 2^MaxRomShift * 32 KiB.
MaxRomShift == 6

-----------------------------------------------------------------------------
(* Machine integers *)

None == -1

B(cond) == IF cond THEN 1 ELSE 0

Bit(x, n) == (x \div (2 ^ n)) % 2

RECURSIVE BitAndN(_, _, _)
BitAndN(x, y, n) ==
    IF n = 0 THEN 0
    ELSE (x % 2) * (y % 2) + 2 * BitAndN(x \div 2, y \div 2, n - 1)

BitAnd(x, y) == BitAndN(x, y, 16)

BitOr(x, y) == x + y - BitAnd(x, y)

BitXor(x, y) == x + y - 2 * BitAnd(x, y)

Not8(x) == 255 - x

\* A faulty increment that skips a byte; the pipeline property C9 must reject it
wrapping_inc_16_skipping(n) == (n + 2) % 65536

wrapping_inc_16(n) == (n + 1) % 65536

wrapping_dec_16(n) == (n + 65535) % 65536

wrapping_dec_8(n) == (n + 255) % 256

WrapAdd8(x, y) == (x + y) % 256

WrapSub8(x, y) == (x - y + 256) % 256

\* byte as i8
AsI8(byte) == IF byte >= 128 THEN byte - 256 ELSE byte

\* A checked u8 operation: the exact result v either fits, or overflows.
Overflows8(v) == v < 0 \/ v > 255

Wrap8(v) == v % 256

Overflows16(v) == v < 0 \/ v > 65535

Wrap16(v) == v % 65536

\* add_i8_to_u16(n, m).  For m = -128 the negation -m overflows i8: with
\* overflow checks it panics (result None), without it stays -128, which
\* as u16 is 0xFF80.
add_i8_to_u16(n, m) ==
    IF m < 0
    THEN IF m = -128
         THEN IF overflow_checks THEN None ELSE (n - 65408 + 65536) % 65536
         ELSE (n - (-m) + 65536) % 65536
    ELSE (n + m) % 65536

-----------------------------------------------------------------------------
(* Register file *)

Registers_init ==
    [a |-> 0, f |-> 0, b |-> 0, c |-> 0, d |-> 0, e |-> 0, h |-> 0, l |-> 0,
     sp |-> 0, pc |-> 0]

get_bc(r) == r.b * 256 + r.c

set_bc(r, val) == [r EXCEPT !.b = val \div 256, !.c = val % 256]

\* get_de packs d with self.c.0
get_de(r) == r.d * 256 + r.c

set_de(r, val) == [r EXCEPT !.d = val \div 256, !.e = val % 256]

get_hl(r) == r.h * 256 + r.l

set_hl(r, val) == [r EXCEPT !.h = val \div 256, !.l = val % 256]

get_af(r) == r.a * 256 + r.f

set_af(r, val) == [r EXCEPT !.a = val \div 256, !.f = val % 256]

inc_bc(r) == set_bc(r, wrapping_inc_16(get_bc(r)))

dec_bc(r) == set_bc(r, wrapping_dec_16(get_bc(r)))

inc_de(r) == set_de(r, wrapping_inc_16(get_de(r)))

dec_de(r) == set_de(r, wrapping_dec_16(get_de(r)))

inc_hl(r) == set_hl(r, wrapping_inc_16(get_hl(r)))

dec_hl(r) == set_hl(r, wrapping_dec_16(get_hl(r)))

add_hl(r, data) == set_hl(r, (get_hl(r) + data) % 65536)

\* set_flags(z, n, h, c): each argument is an Option<bool>, None (-1), 0 or 1.
\* f starts at 0; a flag that is None contributes no bit.
set_flags(r, z, n, h, c) ==
    LET f == B(z = 1) * 16 + B(n = 1) * 8 + B(h = 1) * 4 + B(c = 1) * 2
    IN  [r EXCEPT !.f = (f * 8) % 256]

zero(r) == Bit(r.f, 7) = 1

neg(r) == Bit(r.f, 6) = 1

half_carry(r) == Bit(r.f, 5) = 1

carry_bit(r) == Bit(r.f, 4)

carry(r) == carry_bit(r) = 1

half_carry_occurred(b, a) == Bit((b % 16) + (a % 16), 4) = 1

half_borrow_occurred(b, a) == Bit((Not8(b) % 16) + (a % 16), 4) = 1

rot_left(v) == ((v * 2) % 256) + Bit(v, 7)

rot_right(v) == (v \div 2) + 128 * Bit(v, 0)

-----------------------------------------------------------------------------
(* Accumulator operations.  Each yields [r |-> registers, trap |-> kind]. *)

Done(r) == [r |-> r, trap |-> "none"]

Panic(r, kind) == [r |-> r, trap |-> kind]

add(r, data) ==
    LET before == r.a
        after == WrapAdd8(r.a, data)
    IN  Done(set_flags([r EXCEPT !.a = after],
                       B(after = 0), 0, B(half_carry_occurred(before, after)),
                       B(before > after)))

adc(r, data) ==
    LET before == r.a
        rhs == data + carry_bit(r)
        after == WrapAdd8(r.a, Wrap8(rhs))
    IN  IF Overflows8(rhs) /\ overflow_checks
        THEN Panic(r, "arith_overflow")
        ELSE Done(set_flags([r EXCEPT !.a = after],
                            B(after = 0), 0, B(half_carry_occurred(before, after)),
                            B(before > after)))

sub(r, data) ==
    LET before == r.a
        after == WrapSub8(r.a, data)
    IN  Done(set_flags([r EXCEPT !.a = after],
                       B(after = 0), 1, B(half_borrow_occurred(before, after)),
                       B(before < after)))

sbc(r, data) ==
    LET before == r.a
        rhs == data + carry_bit(r)
        after == WrapSub8(r.a, Wrap8(rhs))
    IN  IF Overflows8(rhs) /\ overflow_checks
        THEN Panic(r, "arith_overflow")
        ELSE Done(set_flags([r EXCEPT !.a = after],
                            B(after = 0), 1, B(half_borrow_occurred(before, after)),
                            B(before < after)))

and(r, data) ==
    LET after == BitAnd(r.a, data)
    IN  Done(set_flags([r EXCEPT !.a = after], B(after = 0), 0, 1, 0))

xor(r, data) ==
    LET after == BitXor(r.a, data)
    IN  Done(set_flags([r EXCEPT !.a = after], B(after = 0), 0, 0, 0))

or(r, data) ==
    LET after == BitOr(r.a, data)
    IN  Done(set_flags([r EXCEPT !.a = after], B(after = 0), 0, 0, 0))

cp(r, data) ==
    LET exact == r.a - data
        result == Wrap8(exact + 256)
    IN  IF Overflows8(exact) /\ overflow_checks
        THEN Panic(r, "arith_overflow")
        ELSE Done(set_flags(r, B(result = 0), 1,
                            B(half_carry_occurred(r.a, result)), B(result > r.a)))

\* daa: the branch taken when N is set adds, the other subtracts; self.a +=
\* wraps (Reg8's operator), self.a.0 += and -= are checked u8 arithmetic.
daa(r) ==
    LET adj1 == neg(r) /\ (carry(r) \/ r.a > 153)
        a1 == IF adj1 THEN WrapAdd8(r.a, 96) ELSE r.a
        adj2 == neg(r) /\ (half_carry(r) \/ (a1 % 16) > 9)
        e2 == IF adj2 THEN a1 + 6 ELSE a1
        sub1 == ~neg(r) /\ carry(r)
        e3 == IF sub1 THEN r.a - 96 ELSE r.a
        a3 == Wrap8(e3 + 256)
        sub2 == ~neg(r) /\ half_carry(r)
        e4 == IF sub2 THEN a3 - 6 ELSE a3
        final == IF neg(r) THEN Wrap8(e2) ELSE Wrap8(e4 + 256)
        overflow == IF neg(r) THEN Overflows8(e2)
                    ELSE Overflows8(e3) \/ Overflows8(e4)
        \* the registers as they are when the first overflowing operation panics
        partial == IF neg(r) THEN [r EXCEPT !.a = a1]
                   ELSE IF Overflows8(e3) THEN r ELSE [r EXCEPT !.a = a3]
    IN  IF overflow /\ overflow_checks
        THEN Panic(partial, "arith_overflow")
        ELSE Done(set_flags([r EXCEPT !.a = final], B(final = 0), None, 0, B(adj1)))

cpl(r) == Done(set_flags([r EXCEPT !.a = Not8(r.a)], None, 1, 1, None))

rlca(r) ==
    LET after == rot_left(r.a)
    IN  Done(set_flags([r EXCEPT !.a = after], 0, 0, 0, B(after % 2 = 1)))

rla(r) ==
    LET x == Bit(r.a, 7)
        after == ((r.a * 2) % 256) + carry_bit(r)
    IN  Done(set_flags([r EXCEPT !.a = after], 0, 0, 0, B(x = 1)))

\* rrca tests self.a.0 & 0x80 == 1
rrca(r) ==
    LET after == rot_right(r.a)
    IN  Done(set_flags([r EXCEPT !.a = after], 0, 0, 0, B(BitAnd(after, 128) = 1)))

rra(r) ==
    LET y == Bit(r.a, 0)
        after == (r.a \div 2) + 128 * carry_bit(r)
    IN  Done(set_flags([r EXCEPT !.a = after], 0, 0, 0, B(y = 1)))

-----------------------------------------------------------------------------
(* Cartridge ROM and RAM *)

\* A ROM image is its length and its bytes: over lists the bytes at chosen
\* offsets, every other byte below len is a filler derived from the offset
\* and the image's seed, which differs from bank to bank.
RomFill(rom, i) == (rom.seed + (i \div 16384) + i) % 256

RomByte(rom, i) == IF i \in DOMAIN rom.over THEN rom.over[i] ELSE RomFill(rom, i)

ROM_new(contents) ==
    [len |-> Len(contents),
     over |-> [i \in 0 .. (Len(contents) - 1) |-> contents[i + 1]],
     seed |-> 0]

ROM_read_byte(rom, offset) == IF offset < rom.len THEN RomByte(rom, offset) ELSE None

\* RAM::new(size) is Vec::with_capacity(size): a vector of length 0.
RAM_new(size) == << >>

RAM_read_byte(ram, offset) == IF offset < Len(ram) THEN ram[offset + 1] ELSE None

\* write_byte rejects offset > len and indexes self[offset] otherwise, which
\* panics for offset = len.
RAM_write_byte(ram, offset, data) ==
    IF offset > Len(ram)
    THEN [ram |-> ram, result |-> "Err", trap |-> "none"]
    ELSE IF offset < Len(ram)
         THEN [ram |-> [ram EXCEPT ![offset + 1] = data], result |-> "Ok", trap |-> "none"]
         ELSE [ram |-> ram, result |-> "Err", trap |-> "index_out_of_bounds"]

-----------------------------------------------------------------------------
(* Memory bank controllers *)

MbcKinds == {"MBC1", "MBC2", "MBC3", "MBC5", "RomOnly"}

MBC_RomOnly(rom) ==
    [kind |-> "RomOnly", rom |-> rom, ram |-> << >>, active_rom_bank |-> 0,
     active_ram_bank |-> 0, ram_enabled |-> FALSE, mode |-> "RomSelect"]

\* The controller Cartridge::load builds for an MBC1 cartridge; the other
\* banked kinds start from the same field values.
MBC_Banked(kind, rom, ram_size) ==
    [kind |-> kind, rom |-> rom, ram |-> RAM_new(ram_size), active_rom_bank |-> 1,
     active_ram_bank |-> 1, ram_enabled |-> FALSE, mode |-> "RomSelect"]

\* read_rom_bank: the index of the ROM byte that is read
read_rom_bank(offset, bank) ==
    IF offset < 16384 THEN offset ELSE 16384 * bank + offset

\* The bank the MBC1 arm of read_rom selects, after promotion
MBC1_active_rom_bank(m) ==
    LET selected == IF m.mode = "RomSelect" THEN m.active_rom_bank % 32
                    ELSE m.active_rom_bank
    IN  IF selected \in {0, 32, 64, 96} THEN selected + 1 ELSE selected

\* The index into the ROM vector that read_rom(offset) reads
read_rom_index(m, offset) ==
    CASE m.kind = "MBC1" -> read_rom_bank(offset, MBC1_active_rom_bank(m))
      [] m.kind \in {"MBC2", "MBC3", "MBC5"} -> read_rom_bank(offset, m.active_rom_bank)
      [] OTHER -> offset

read_rom(m, offset) == ROM_read_byte(m.rom, read_rom_index(m, offset))

\* The RAM enable register, common to the banked controllers
RamEnableWrite(m, data) ==
    IF data = 0 THEN [m EXCEPT !.ram_enabled = FALSE]
    ELSE IF data % 16 = 10 THEN [m EXCEPT !.ram_enabled = TRUE]
    ELSE m

\* A faulty MBC1 that stores the byte into the ROM image; the frame property
\* C8 must reject it
write_rom_MBC1_storing(m, offset, data) ==
    [m EXCEPT !.rom.over = (offset :> data) @@ m.rom.over]

write_rom_MBC1(m, offset, data) ==
    CASE offset <= 8191 -> RamEnableWrite(m, data)
      [] offset >= 8192 /\ offset <= 16383 ->
            [m EXCEPT !.active_rom_bank = BitOr(data % 32, BitAnd(m.active_rom_bank, 96))]
      [] offset >= 16384 /\ offset <= 24575 ->
            LET bank_number == BitAnd(data, 2)
            IN  IF m.ram_enabled
                THEN [m EXCEPT !.active_ram_bank = bank_number]
                ELSE [m EXCEPT !.active_rom_bank =
                                    BitOr(bank_number * 32, m.active_rom_bank % 32)]
      [] offset >= 24576 /\ offset <= 32767 ->
            IF data = 0 THEN [m EXCEPT !.mode = "RomSelect"]
            ELSE IF data = 1 THEN [m EXCEPT !.mode = "RamSelect"]
            ELSE m
      [] OTHER -> m

\* The bank-select arm tests offset & 0x0100 == 1
write_rom_MBC2(m, offset, data) ==
    CASE offset <= 8191 ->
            IF BitAnd(offset, 256) = 0 THEN RamEnableWrite(m, data) ELSE m
      [] offset >= 8192 /\ offset <= 16383 ->
            IF BitAnd(offset, 256) = 1
            THEN [m EXCEPT !.active_rom_bank = data % 16]
            ELSE m
      [] OTHER -> m

write_rom_MBC3(m, offset, data) ==
    CASE offset <= 8191 -> RamEnableWrite(m, data)
      [] offset >= 8192 /\ offset <= 16383 ->
            LET bank_number == data % 128
            IN  [m EXCEPT !.active_rom_bank = IF bank_number = 0 THEN 1 ELSE bank_number]
      [] offset >= 16384 /\ offset <= 24575 ->
            IF data <= 12 THEN [m EXCEPT !.active_ram_bank = data] ELSE m
      [] OTHER -> m

\* The latch arm of MBC3 indexes mbc.rom[offset] when data = 1
write_rom_MBC3_panics(m, offset, data) ==
    offset >= 24576 /\ offset <= 32767 /\ data = 1 /\ offset >= m.rom.len

\* The upper-bit arm of MBC5 shifts the u8 (1 & data) left by 8
write_rom_MBC5_panics(m, offset, data) ==
    offset >= 12288 /\ offset <= 16383 /\ overflow_checks

write_rom_MBC5(m, offset, data) ==
    CASE offset <= 8191 -> RamEnableWrite(m, data)
      [] offset >= 8192 /\ offset <= 12287 ->
            [m EXCEPT !.active_rom_bank = BitOr(data, BitAnd(m.active_rom_bank, 256))]
      [] offset >= 12288 /\ offset <= 16383 ->
            \* without overflow checks the shift amount is masked to 0
            [m EXCEPT !.active_rom_bank = BitOr(data % 2, m.active_ram_bank % 256)]
      [] offset >= 16384 /\ offset <= 24575 ->
            [m EXCEPT !.active_ram_bank = data % 16]
      [] OTHER -> m

\* write_rom(offset, data): the controller afterwards, and whether it panicked
write_rom(m, offset, data) ==
    CASE m.kind = "MBC1" -> [mbc |-> write_rom_MBC1(m, offset, data), trap |-> "none"]
      [] m.kind = "MBC2" -> [mbc |-> write_rom_MBC2(m, offset, data), trap |-> "none"]
      [] m.kind = "MBC3" ->
            IF write_rom_MBC3_panics(m, offset, data)
            THEN [mbc |-> m, trap |-> "index_out_of_bounds"]
            ELSE [mbc |-> write_rom_MBC3(m, offset, data), trap |-> "none"]
      [] m.kind = "MBC5" ->
            IF write_rom_MBC5_panics(m, offset, data)
            THEN [mbc |-> m, trap |-> "arith_overflow"]
            ELSE [mbc |-> write_rom_MBC5(m, offset, data), trap |-> "none"]
      [] OTHER -> [mbc |-> m, trap |-> "none"]

read_ram(m, offset) ==
    IF m.kind = "RomOnly" THEN None ELSE RAM_read_byte(m.ram, offset)

\* write_ram(offset, data): the controller afterwards, the Result and a panic
write_ram(m, offset, data) ==
    IF m.kind = "RomOnly"
    THEN [mbc |-> m, result |-> "Ok", trap |-> "none"]
    ELSE LET w == RAM_write_byte(m.ram, offset, data)
         IN  [mbc |-> [m EXCEPT !.ram = w.ram], result |-> w.result, trap |-> w.trap]

-----------------------------------------------------------------------------
(* Console: the address bus *)

ROM_BANK_N_START == 16384

CHR_RAM_START == 32768

BG_MAP_DATA_1_START == 38912

CARTRIDGE_RAM_START == 40960

WRAM_START == 49152

ECHO_RAM_START == 57344

OAM_START == 65024

OAM_END == 65184

HARDWARE_IO_START == 65280

HIGH_RAM_START == 65408

IE_START == 65535

CHR_RAM_SIZE == BG_MAP_DATA_1_START - CHR_RAM_START

BG_MAP_DATA_SIZE == CARTRIDGE_RAM_START - BG_MAP_DATA_1_START

WRAM_SIZE == ECHO_RAM_START - WRAM_START

OAM_SIZE == OAM_END - OAM_START

HARDWARE_IO_SIZE == HIGH_RAM_START - HARDWARE_IO_START

HIGH_RAM_SIZE == IE_START - HIGH_RAM_START

\* A region vec![0; size] is the function of the bytes written so far; a
\* byte never written is 0.
EmptyVec == << >>

Vec_get(vec, size, i) ==
    IF i >= 0 /\ i < size
    THEN IF i \in DOMAIN vec THEN vec[i] ELSE 0
    ELSE None

\* get_mut(i).map(|b| *b = data): the region afterwards
Vec_set(vec, size, i, data) ==
    IF i >= 0 /\ i < size
    THEN [j \in (DOMAIN vec) \cup {i} |-> IF j = i THEN data ELSE vec[j]]
    ELSE vec

\* Some(()) is 0
Vec_set_result(size, i) == IF i >= 0 /\ i < size THEN 0 ELSE None

Console_start(cartridge) ==
    [cartridge |-> cartridge, chr_ram |-> EmptyVec, bg_data |-> EmptyVec,
     wram |-> EmptyVec, oam |-> EmptyVec, hardware |-> EmptyVec,
     hi_ram |-> EmptyVec, ie |-> FALSE]

\* Console::read(offset), against the cartridge's controller m
Console_read(co, m, offset) ==
    CASE offset <= 32767 -> IF co.cartridge THEN read_rom(m, offset) ELSE None
      [] offset >= 32768 /\ offset <= 38911 ->
            Vec_get(co.chr_ram, CHR_RAM_SIZE, offset - CHR_RAM_START)
      [] offset >= 38912 /\ offset <= 40959 ->
            Vec_get(co.bg_data, BG_MAP_DATA_SIZE, offset - BG_MAP_DATA_1_START)
      [] offset >= 40960 /\ offset <= 49151 ->
            IF co.cartridge THEN read_ram(m, offset - CARTRIDGE_RAM_START) ELSE None
      [] offset >= 49152 /\ offset <= 57343 ->
            Vec_get(co.wram, WRAM_SIZE, offset - WRAM_START)
      [] offset >= 57344 /\ offset <= 65023 ->
            Vec_get(co.wram, WRAM_SIZE, offset - (ECHO_RAM_START - WRAM_START))
      [] offset >= 65024 /\ offset <= 65183 ->
            Vec_get(co.oam, OAM_SIZE, offset - OAM_START)
      [] offset >= 65184 /\ offset <= 65279 -> None
      [] offset >= 65280 /\ offset <= 65407 ->
            Vec_get(co.hardware, HARDWARE_IO_SIZE, offset - HARDWARE_IO_START)
      [] offset >= 65408 /\ offset <= 65534 ->
            Vec_get(co.hi_ram, HIGH_RAM_SIZE, offset - HIGH_RAM_START)
      [] offset = 65535 -> B(co.ie)
      [] OTHER -> None

\* Console::write(offset, data): the console and the controller afterwards,
\* the Option<()> returned (0 for Some(())) and a panic
Console_write(co, m, offset, data) ==
    LET same == [console |-> co, mbc |-> m, value |-> None, trap |-> "none"]
    IN
    CASE offset <= 32767 ->
            IF co.cartridge
            THEN LET w == write_rom(m, offset, data)
                 IN  [same EXCEPT !.mbc = w.mbc, !.value = 0, !.trap = w.trap]
            ELSE same
      [] offset >= 32768 /\ offset <= 38911 ->
            [same EXCEPT
                !.console.chr_ram = Vec_set(co.chr_ram, CHR_RAM_SIZE, offset - CHR_RAM_START, data),
                !.value = Vec_set_result(CHR_RAM_SIZE, offset - CHR_RAM_START)]
      [] offset >= 38912 /\ offset <= 40959 ->
            [same EXCEPT
                !.console.bg_data = Vec_set(co.bg_data, BG_MAP_DATA_SIZE, offset - BG_MAP_DATA_1_START, data),
                !.value = Vec_set_result(BG_MAP_DATA_SIZE, offset - BG_MAP_DATA_1_START)]
      [] offset >= 40960 /\ offset <= 49151 ->
            IF co.cartridge
            THEN LET w == write_rom(m, offset - CARTRIDGE_RAM_START, data)
                 IN  [same EXCEPT !.mbc = w.mbc, !.value = 0, !.trap = w.trap]
            ELSE same
      [] offset >= 49152 /\ offset <= 57343 ->
            [same EXCEPT
                !.console.wram = Vec_set(co.wram, WRAM_SIZE, offset - WRAM_START, data),
                !.value = Vec_set_result(WRAM_SIZE, offset - WRAM_START)]
      [] offset >= 57344 /\ offset <= 65023 ->
            [same EXCEPT
                !.console.wram = Vec_set(co.wram, WRAM_SIZE, offset - (ECHO_RAM_START - WRAM_START), data),
                !.value = Vec_set_result(WRAM_SIZE, offset - (ECHO_RAM_START - WRAM_START))]
      [] offset >= 65024 /\ offset <= 65183 ->
            [same EXCEPT
                !.console.oam = Vec_set(co.oam, OAM_SIZE, offset - OAM_START, data),
                !.value = Vec_set_result(OAM_SIZE, offset - OAM_START)]
      [] offset >= 65184 /\ offset <= 65279 -> same
      [] offset >= 65280 /\ offset <= 65407 ->
            [same EXCEPT
                !.console.hardware = Vec_set(co.hardware, HARDWARE_IO_SIZE, offset - HARDWARE_IO_START, data),
                !.value = Vec_set_result(HARDWARE_IO_SIZE, offset - HARDWARE_IO_START)]
      [] offset >= 65408 /\ offset <= 65534 ->
            [same EXCEPT
                !.console.hi_ram = Vec_set(co.hi_ram, HIGH_RAM_SIZE, offset - HIGH_RAM_START, data),
                !.value = Vec_set_result(HIGH_RAM_SIZE, offset - HIGH_RAM_START)]
      [] offset = 65535 -> [same EXCEPT !.console.ie = (data # 0), !.value = 0]
      [] OTHER -> same

-----------------------------------------------------------------------------
(* Instruction table *)

\* INSTRUCTIONS[opcode]: the argument kind, cycles.0 and cycles.1.  The
\* entries built by Instruction::none are <<"None", 0, 0>>.
INSTRUCTIONS == <<
    <<"None", 4, 4>>, <<"Data16", 12, 12>>, <<"None", 8, 8>>, <<"None", 8, 8>>, <<"None", 4, 4>>, <<"None", 4, 4>>, <<"Data8", 8, 8>>, <<"None", 4, 4>>,
    <<"Addr16", 20, 20>>, <<"None", 8, 8>>, <<"None", 8, 8>>, <<"None", 8, 8>>, <<"None", 4, 4>>, <<"None", 4, 4>>, <<"Data8", 8, 8>>, <<"None", 4, 4>>,
    <<"Data8", 4, 4>>, <<"Data16", 12, 12>>, <<"None", 8, 8>>, <<"None", 8, 8>>, <<"None", 4, 4>>, <<"None", 4, 4>>, <<"Data8", 8, 8>>, <<"None", 4, 4>>,
    <<"Offset8", 12, 12>>, <<"None", 8, 8>>, <<"None", 8, 8>>, <<"None", 8, 8>>, <<"None", 4, 4>>, <<"None", 4, 4>>, <<"Data8", 8, 8>>, <<"None", 4, 4>>,
    <<"Offset8", 8, 12>>, <<"Data16", 12, 12>>, <<"None", 8, 8>>, <<"None", 8, 8>>, <<"None", 4, 4>>, <<"None", 4, 4>>, <<"Data8", 8, 8>>, <<"None", 4, 4>>,
    <<"Offset8", 8, 12>>, <<"None", 8, 8>>, <<"None", 8, 8>>, <<"None", 8, 8>>, <<"None", 4, 4>>, <<"None", 4, 4>>, <<"Data8", 8, 8>>, <<"None", 4, 4>>,
    <<"Offset8", 8, 12>>, <<"Data16", 12, 12>>, <<"None", 8, 8>>, <<"None", 8, 8>>, <<"None", 12, 12>>, <<"None", 12, 12>>, <<"Data8", 12, 12>>, <<"None", 4, 4>>,
    <<"Offset8", 8, 12>>, <<"None", 8, 8>>, <<"None", 8, 8>>, <<"None", 8, 8>>, <<"None", 4, 4>>, <<"None", 4, 4>>, <<"Data8", 8, 8>>, <<"None", 4, 4>>,
    <<"None", 4, 4>>, <<"None", 4, 4>>, <<"None", 4, 4>>, <<"None", 4, 4>>, <<"None", 4, 4>>, <<"None", 4, 4>>, <<"None", 8, 8>>, <<"None", 4, 4>>,
    <<"None", 4, 4>>, <<"None", 4, 4>>, <<"None", 4, 4>>, <<"None", 4, 4>>, <<"None", 4, 4>>, <<"None", 4, 4>>, <<"None", 8, 8>>, <<"None", 4, 4>>,
    <<"None", 4, 4>>, <<"None", 4, 4>>, <<"None", 4, 4>>, <<"None", 4, 4>>, <<"None", 4, 4>>, <<"None", 4, 4>>, <<"None", 8, 8>>, <<"None", 4, 4>>,
    <<"None", 4, 4>>, <<"None", 4, 4>>, <<"None", 4, 4>>, <<"None", 4, 4>>, <<"None", 4, 4>>, <<"None", 4, 4>>, <<"None", 8, 8>>, <<"None", 4, 4>>,
    <<"None", 4, 4>>, <<"None", 4, 4>>, <<"None", 4, 4>>, <<"None", 4, 4>>, <<"None", 4, 4>>, <<"None", 4, 4>>, <<"None", 8, 8>>, <<"None", 4, 4>>,
    <<"None", 4, 4>>, <<"None", 4, 4>>, <<"None", 4, 4>>, <<"None", 4, 4>>, <<"None", 4, 4>>, <<"None", 4, 4>>, <<"None", 8, 8>>, <<"None", 4, 4>>,
    <<"None", 8, 8>>, <<"None", 8, 8>>, <<"None", 8, 8>>, <<"None", 8, 8>>, <<"None", 8, 8>>, <<"None", 8, 8>>, <<"None", 4, 4>>, <<"None", 8, 8>>,
    <<"None", 4, 4>>, <<"None", 4, 4>>, <<"None", 4, 4>>, <<"None", 4, 4>>, <<"None", 4, 4>>, <<"None", 4, 4>>, <<"None", 8, 8>>, <<"None", 4, 4>>,
    <<"None", 4, 4>>, <<"None", 4, 4>>, <<"None", 4, 4>>, <<"None", 4, 4>>, <<"None", 4, 4>>, <<"None", 4, 4>>, <<"None", 8, 8>>, <<"None", 4, 4>>,
    <<"None", 4, 4>>, <<"None", 4, 4>>, <<"None", 4, 4>>, <<"None", 4, 4>>, <<"None", 4, 4>>, <<"None", 4, 4>>, <<"None", 8, 8>>, <<"None", 4, 4>>,
    <<"None", 4, 4>>, <<"None", 4, 4>>, <<"None", 4, 4>>, <<"None", 4, 4>>, <<"None", 4, 4>>, <<"None", 4, 4>>, <<"None", 8, 8>>, <<"None", 4, 4>>,
    <<"None", 4, 4>>, <<"None", 4, 4>>, <<"None", 4, 4>>, <<"None", 4, 4>>, <<"None", 4, 4>>, <<"None", 4, 4>>, <<"None", 8, 8>>, <<"None", 4, 4>>,
    <<"None", 4, 4>>, <<"None", 4, 4>>, <<"None", 4, 4>>, <<"None", 4, 4>>, <<"None", 4, 4>>, <<"None", 4, 4>>, <<"None", 8, 8>>, <<"None", 4, 4>>,
    <<"None", 4, 4>>, <<"None", 4, 4>>, <<"None", 4, 4>>, <<"None", 4, 4>>, <<"None", 4, 4>>, <<"None", 4, 4>>, <<"None", 8, 8>>, <<"None", 4, 4>>,
    <<"None", 4, 4>>, <<"None", 4, 4>>, <<"None", 4, 4>>, <<"None", 4, 4>>, <<"None", 4, 4>>, <<"None", 4, 4>>, <<"None", 8, 8>>, <<"None", 4, 4>>,
    <<"None", 4, 4>>, <<"None", 4, 4>>, <<"None", 4, 4>>, <<"None", 4, 4>>, <<"None", 4, 4>>, <<"None", 4, 4>>, <<"None", 8, 8>>, <<"None", 4, 4>>,
    <<"None", 8, 20>>, <<"None", 12, 12>>, <<"Addr16", 12, 16>>, <<"Addr16", 16, 16>>, <<"Addr16", 12, 24>>, <<"None", 16, 16>>, <<"Data8", 8, 8>>, <<"None", 16, 16>>,
    <<"None", 8, 20>>, <<"None", 16, 16>>, <<"Addr16", 12, 16>>, <<"None", 4, 4>>, <<"Addr16", 12, 24>>, <<"Addr16", 24, 24>>, <<"Data8", 8, 8>>, <<"None", 16, 16>>,
    <<"None", 8, 20>>, <<"None", 12, 12>>, <<"Addr16", 12, 16>>, <<"None", 0, 0>>, <<"Addr16", 12, 24>>, <<"None", 16, 16>>, <<"Data8", 8, 8>>, <<"None", 16, 16>>,
    <<"None", 8, 20>>, <<"None", 16, 16>>, <<"Addr16", 12, 16>>, <<"None", 0, 0>>, <<"Addr16", 12, 24>>, <<"None", 0, 0>>, <<"Data8", 8, 8>>, <<"None", 16, 16>>,
    <<"Addr8", 12, 12>>, <<"None", 12, 12>>, <<"None", 8, 8>>, <<"None", 0, 0>>, <<"None", 0, 0>>, <<"None", 16, 16>>, <<"Data8", 8, 8>>, <<"None", 16, 16>>,
    <<"Offset8", 16, 16>>, <<"None", 4, 4>>, <<"Addr16", 16, 16>>, <<"None", 0, 0>>, <<"None", 0, 0>>, <<"None", 0, 0>>, <<"Data8", 8, 8>>, <<"None", 16, 16>>,
    <<"Addr8", 12, 12>>, <<"None", 12, 12>>, <<"None", 8, 8>>, <<"None", 4, 4>>, <<"None", 0, 0>>, <<"None", 16, 16>>, <<"Data8", 8, 8>>, <<"None", 16, 16>>,
    <<"Offset8", 12, 12>>, <<"None", 8, 8>>, <<"Addr16", 16, 16>>, <<"None", 4, 4>>, <<"None", 0, 0>>, <<"None", 0, 0>>, <<"Data8", 8, 8>>, <<"None", 16, 16>>
>>

Arg(kind, val) == [kind |-> kind, val |-> val]

Instruction_from_opcode(opcode) ==
    LET e == INSTRUCTIONS[opcode + 1]
    IN  [opcode |-> opcode, prefixed |-> FALSE, arg |-> Arg(e[1], 0),
         cycles |-> <<e[2], e[3]>>]

Instruction_prefixed(opcode) ==
    [opcode |-> opcode, prefixed |-> TRUE, arg |-> Arg("None", 0), cycles |-> <<8, 8>>]

-----------------------------------------------------------------------------
(* CPU: the execution context *)

\* The part of the machine an instruction handler works on: the registers,
\* the controller, the two interrupt latches, a panic, and the handler's
\* extra_cycles result.
Cx(r, m, di, ei) ==
    [r |-> r, m |-> m, di |-> di, ei |-> ei, trap |-> "none", extra |-> FALSE]

Trap(cx, kind) == [cx EXCEPT !.trap = kind]

\* The registers selected by a 3-bit field; 0b110 selects memory at HL
RegNames == <<"b", "c", "d", "e", "h", "l", "(hl)", "a">>

\* memory.write_ram(addr, data), the Result dropped
Mem_write(cx, addr, data) ==
    LET w == write_ram(cx.m, addr, data)
    IN  [cx EXCEPT !.m = w.mbc, !.trap = w.trap]

\* The source operand of a 3-bit field: None when read_ram yields None
Operand(cx, s) ==
    IF s = 6 THEN read_ram(cx.m, get_hl(cx.r)) ELSE cx.r[RegNames[s + 1]]

\* The store to the target of a 3-bit field
Store(cx, t, v) ==
    IF t = 6 THEN Mem_write(cx, get_hl(cx.r), v)
    ELSE [cx EXCEPT !.r[RegNames[t + 1]] = v]

\* The outcome of a register-file operation that may panic
WithR(cx, res) == [cx EXCEPT !.r = res.r, !.trap = res.trap]

\* A faulty condition decoder with NZ and Z exchanged; the multiplication
\* property C1 must reject it
Cond_exchanged(r, x) ==
    CASE x = 0 -> zero(r)
      [] x = 1 -> ~zero(r)
      [] x = 2 -> ~carry(r)
      [] OTHER -> carry(r)

\* The condition of a conditional jump, call or return
Cond(r, x) ==
    CASE x = 0 -> ~zero(r)
      [] x = 1 -> zero(r)
      [] x = 2 -> ~carry(r)
      [] OTHER -> carry(r)

push_stack(cx, addr) ==
    LET h == addr \div 256
        l == addr % 256
        w1 == Mem_write(cx, cx.r.sp, h)
        c1 == [w1 EXCEPT !.r.sp = wrapping_dec_16(cx.r.sp)]
        w2 == Mem_write(c1, c1.r.sp, l)
    IN  IF w1.trap # "none" THEN w1
        ELSE IF w2.trap # "none" THEN w2
        ELSE [w2 EXCEPT !.r.sp = wrapping_dec_16(c1.r.sp)]

\* pop_stack: the context afterwards and the value popped
pop_stack(cx) ==
    LET h == read_ram(cx.m, cx.r.sp)
        sp1 == wrapping_inc_16(cx.r.sp)
        l == read_ram(cx.m, sp1)
        c1 == [cx EXCEPT !.r.sp = sp1]
    IN  IF h = None THEN [cx |-> Trap(cx, "unwrap_none"), value |-> 0]
        ELSE IF l = None THEN [cx |-> Trap(c1, "unwrap_none"), value |-> 0]
        ELSE [cx |-> [c1 EXCEPT !.r.sp = wrapping_inc_16(sp1)], value |-> h * 256 + l]

-----------------------------------------------------------------------------
(* CPU: the handlers of the unprefixed instructions *)

\* scf and ccf
exec_scf(cx) == [cx EXCEPT !.r = set_flags(cx.r, None, 0, 0, 1)]

exec_ccf(cx) == [cx EXCEPT !.r = set_flags(cx.r, None, 0, 0, B(~carry(cx.r)))]

\* "00xx_0001": load immediate 16-bit value
exec_ld_rr_d16(cx, x, arg) ==
    IF arg.kind = "Data16"
    THEN CASE x = 0 -> [cx EXCEPT !.r = set_bc(cx.r, arg.val)]
           [] x = 1 -> [cx EXCEPT !.r = set_de(cx.r, arg.val)]
           [] x = 2 -> [cx EXCEPT !.r = set_hl(cx.r, arg.val)]
           [] OTHER -> [cx EXCEPT !.r.sp = arg.val]
    ELSE cx

\* "00xx_0010": load A into a stored memory location
exec_ld_mem_a(cx, x) ==
    LET addr == CASE x = 0 -> get_bc(cx.r) [] x = 1 -> get_de(cx.r) [] OTHER -> get_hl(cx.r)
        w == Mem_write(cx, addr, cx.r.a)
    IN  IF w.trap # "none" \/ x < 2 THEN w
        ELSE IF x = 2 THEN [w EXCEPT !.r = inc_hl(w.r)]
        ELSE [w EXCEPT !.r = dec_hl(w.r)]

\* "00xx_1010": load the data at a stored memory location into A
exec_ld_a_mem(cx, x) ==
    LET addr == CASE x = 0 -> get_bc(cx.r) [] x = 1 -> get_de(cx.r) [] OTHER -> get_hl(cx.r)
        v == read_ram(cx.m, addr)
        c1 == [cx EXCEPT !.r.a = v]
    IN  IF v = None THEN Trap(cx, "unwrap_none")
        ELSE IF x < 2 THEN c1
        ELSE IF x = 2 THEN [c1 EXCEPT !.r = inc_hl(c1.r)]
        ELSE [c1 EXCEPT !.r = dec_hl(c1.r)]

\* "00xx_0011": 16-bit increment
exec_inc_rr(cx, x, arg) ==
    IF arg.kind = "None"
    THEN CASE x = 0 -> [cx EXCEPT !.r = inc_bc(cx.r)]
           [] x = 1 -> [cx EXCEPT !.r = inc_de(cx.r)]
           [] x = 2 -> [cx EXCEPT !.r = inc_hl(cx.r)]
           [] OTHER -> [cx EXCEPT !.r.sp = wrapping_inc_16(cx.r.sp)]
    ELSE cx

\* "00xx_1011": 16-bit decrement
exec_dec_rr(cx, x, arg) ==
    IF arg.kind = "None"
    THEN CASE x = 0 -> [cx EXCEPT !.r = dec_bc(cx.r)]
           [] x = 1 -> [cx EXCEPT !.r = dec_de(cx.r)]
           [] x = 2 -> [cx EXCEPT !.r = dec_hl(cx.r)]
           [] OTHER -> [cx EXCEPT !.r.sp = wrapping_dec_16(cx.r.sp)]
    ELSE cx

\* The variant of exec_inc_r that counts a register up by two
exec_inc_r_by_two(cx, x, arg) ==
    IF arg.kind # "None" \/ x = 6 THEN cx
    ELSE [cx EXCEPT !.r[RegNames[x + 1]] = WrapAdd8(cx.r[RegNames[x + 1]], 2)]

\* "00xx_x100": 8-bit increment.  Registers use Reg8's wrapping +=; the
\* memory operand uses data + 1 on a u8.
exec_inc_r(cx, x, arg) ==
    IF arg.kind # "None" THEN cx
    ELSE IF x = 6
    THEN LET data == read_ram(cx.m, get_hl(cx.r))
         IN  IF data = None THEN Trap(cx, "unwrap_none")
             ELSE IF data = 255 /\ overflow_checks THEN Trap(cx, "arith_overflow")
             ELSE Mem_write(cx, get_hl(cx.r), Wrap8(data + 1))
    ELSE [cx EXCEPT !.r[RegNames[x + 1]] = WrapAdd8(cx.r[RegNames[x + 1]], 1)]

\* "00xx_x101": 8-bit decrement
exec_dec_r(cx, x, arg) ==
    IF arg.kind # "None" THEN cx
    ELSE LET before == Operand(cx, x)
             after == wrapping_dec_8(before)
             c1 == Store(cx, x, after)
         IN  IF before = None THEN Trap(cx, "unwrap_none")
             ELSE IF c1.trap # "none" THEN c1
             ELSE [c1 EXCEPT !.r = set_flags(c1.r, B(after = 0), 0,
                                             B(half_borrow_occurred(before, after)), None)]

\* "00xx_x110": load immediate 8-bit value
exec_ld_r_d8(cx, x, arg) ==
    IF arg.kind = "Data8" THEN Store(cx, x, arg.val) ELSE cx

\* "01tt_tsss": load stored 8-bit value
exec_ld_r_r(cx, t, s, arg) ==
    IF arg.kind # "None" THEN cx
    ELSE LET data == Operand(cx, s)
         IN  IF data = None THEN Trap(cx, "unwrap_none") ELSE Store(cx, t, data)

\* The accumulator operation selected by a 3-bit field
exec_alu(cx, f, data) ==
    CASE f = 0 -> WithR(cx, add(cx.r, data))
      [] f = 1 -> WithR(cx, adc(cx.r, data))
      [] f = 2 -> WithR(cx, sub(cx.r, data))
      [] f = 3 -> WithR(cx, sbc(cx.r, data))
      [] f = 4 -> WithR(cx, and(cx.r, data))
      [] f = 5 -> WithR(cx, xor(cx.r, data))
      [] f = 6 -> WithR(cx, or(cx.r, data))
      [] OTHER -> WithR(cx, cp(cx.r, data))

\* "10ff_fsss": accumulator arithmetic
exec_alu_r(cx, f, s, arg) ==
    IF arg.kind # "None" THEN cx
    ELSE LET data == Operand(cx, s)
         IN  IF data = None THEN Trap(cx, "unwrap_none") ELSE exec_alu(cx, f, data)

\* "11xx_x110": accumulator arithmetic with an immediate
exec_alu_d8(cx, x, arg) ==
    IF arg.kind = "Data8" THEN exec_alu(cx, x, arg.val) ELSE cx

\* "00xx_1001": 16-bit arithmetic
exec_add_hl_rr(cx, x) ==
    LET source == CASE x = 0 -> get_bc(cx.r)
                    [] x = 1 -> get_de(cx.r)
                    [] x = 2 -> get_hl(cx.r)
                    [] OTHER -> cx.r.sp
    IN  [cx EXCEPT !.r = add_hl(cx.r, source)]

\* "11xx_0001": pop the stack
exec_pop(cx, x) ==
    LET p == pop_stack(cx)
        c1 == p.cx
    IN  IF c1.trap # "none" THEN c1
        ELSE CASE x = 0 -> [c1 EXCEPT !.r = set_bc(c1.r, p.value)]
               [] x = 1 -> [c1 EXCEPT !.r = set_de(c1.r, p.value)]
               [] x = 2 -> [c1 EXCEPT !.r = set_hl(c1.r, p.value)]
               [] OTHER -> [c1 EXCEPT !.r = set_af(c1.r, p.value)]

\* "11xx_0101": push on the stack
exec_push(cx, x) ==
    LET data == CASE x = 0 -> get_bc(cx.r)
                  [] x = 1 -> get_de(cx.r)
                  [] x = 2 -> get_hl(cx.r)
                  [] OTHER -> get_af(cx.r)
    IN  push_stack(cx, data)

\* "11xx_x111": call a reset
exec_rst(cx, x, arg) ==
    IF arg.kind # "None" THEN cx
    ELSE LET c1 == push_stack(cx, cx.r.pc)
         IN  IF c1.trap # "none" THEN c1 ELSE [c1 EXCEPT !.r.pc = x * 8]

\* pc = add_i8_to_u16(pc, offset)
JumpRelative(cx, offset) ==
    LET target == add_i8_to_u16(cx.r.pc, offset)
    IN  IF target = None THEN Trap(cx, "arith_overflow")
        ELSE [cx EXCEPT !.r.pc = target]

\* "0001_1000": relative jump
exec_jr(cx, arg) ==
    IF arg.kind = "Offset8" THEN JumpRelative(cx, arg.val) ELSE cx

\* "001x_x000": conditional relative jump
exec_jr_cond(cx, x, arg) ==
    IF arg.kind # "Offset8" THEN cx
    ELSE IF Cond(cx.r, x)
    THEN LET c1 == JumpRelative(cx, arg.val)
         IN  IF c1.trap # "none" THEN c1 ELSE [c1 EXCEPT !.extra = TRUE]
    ELSE cx

\* "1100_0011": absolute jump
exec_jp(cx, arg) ==
    IF arg.kind = "Addr16" THEN [cx EXCEPT !.r.pc = arg.val] ELSE cx

\* "1110_1001": jump to HL
exec_jp_hl(cx) == [cx EXCEPT !.r.pc = get_hl(cx.r)]

\* "110x_x010": conditional absolute jump
exec_jp_cond(cx, x, arg) ==
    IF arg.kind # "Addr16" THEN cx
    ELSE IF Cond(cx.r, x) THEN [cx EXCEPT !.r.pc = arg.val, !.extra = TRUE]
    ELSE cx

\* "1100_1101": call
exec_call(cx, arg) ==
    IF arg.kind # "Addr16" THEN cx
    ELSE LET c1 == push_stack(cx, cx.r.pc)
         IN  IF c1.trap # "none" THEN c1 ELSE [c1 EXCEPT !.r.pc = arg.val]

\* "110x_x100": conditional call
exec_call_cond(cx, x, arg) ==
    IF arg.kind # "Addr16" THEN cx
    ELSE IF Cond(cx.r, x)
    THEN LET c1 == push_stack(cx, cx.r.pc)
         IN  IF c1.trap # "none" THEN c1
             ELSE [c1 EXCEPT !.r.pc = arg.val, !.extra = TRUE]
    ELSE cx

\* "110x_1001": return, and return enabling interrupts
exec_ret(cx, x, arg) ==
    IF arg.kind # "None" THEN cx
    ELSE LET p == pop_stack(cx)
             c1 == p.cx
         IN  IF c1.trap # "none" THEN c1
             ELSE [c1 EXCEPT !.r.pc = p.value, !.ei = IF x = 1 THEN TRUE ELSE c1.ei]

\* "110x_x000": conditional return
exec_ret_cond(cx, x, arg) ==
    IF arg.kind # "None" THEN cx
    ELSE IF Cond(cx.r, x)
    THEN LET p == pop_stack(cx)
             c1 == p.cx
         IN  IF c1.trap # "none" THEN c1
             ELSE [c1 EXCEPT !.r.pc = p.value, !.extra = TRUE]
    ELSE cx

\* "000x_x111": accumulator rotations
exec_rot_a(cx, x) ==
    CASE x = 0 -> WithR(cx, rlca(cx.r))
      [] x = 1 -> WithR(cx, rrca(cx.r))
      [] x = 2 -> WithR(cx, rla(cx.r))
      [] OTHER -> WithR(cx, rra(cx.r))

\* if x == 0 { write_ram(addr, a) } else { a.load(read_ram(addr).unwrap()) }
LoadStoreA(cx, x, addr) ==
    IF x = 0 THEN Mem_write(cx, addr, cx.r.a)
    ELSE LET v == read_ram(cx.m, addr)
         IN  IF v = None THEN Trap(cx, "unwrap_none") ELSE [cx EXCEPT !.r.a = v]

\* "111x_0000": immediate address loads
exec_ldh_a8(cx, x, arg) ==
    IF arg.kind = "Addr8" THEN LoadStoreA(cx, x, 65280 + arg.val) ELSE cx

\* "111x_0010"
exec_ldh_c(cx, x) == LoadStoreA(cx, x, 65280 + cx.r.c)

\* "111x_1010"
exec_ld_a16(cx, x, arg) ==
    IF arg.kind = "Addr16" THEN LoadStoreA(cx, x, arg.val) ELSE cx

\* "0000_1000": stack pointer store; addr + 1 is u16 arithmetic
exec_ld_a16_sp(cx, arg) ==
    IF arg.kind # "Addr16" THEN cx
    ELSE LET c1 == Mem_write(cx, arg.val, BitAnd(cx.r.sp, 240))
         IN  IF c1.trap # "none" THEN c1
             ELSE IF Overflows16(arg.val + 1) /\ overflow_checks
             THEN Trap(c1, "arith_overflow")
             ELSE Mem_write(c1, Wrap16(arg.val + 1), BitAnd(c1.r.sp, 15))

\* "1111_1000"
exec_ld_hl_sp_r8(cx, arg) ==
    IF arg.kind # "Offset8" THEN cx
    ELSE LET data == add_i8_to_u16(cx.r.sp, arg.val)
         IN  IF data = None THEN Trap(cx, "arith_overflow")
             ELSE [cx EXCEPT !.r = set_hl(cx.r, data)]

\* "1111_1001"
exec_ld_sp_hl(cx) == [cx EXCEPT !.r.sp = get_hl(cx.r)]

\* "1110_1000": stack pointer arithmetic
exec_add_sp_r8(cx, arg) ==
    IF arg.kind # "Offset8" THEN cx
    ELSE LET data == add_i8_to_u16(cx.r.sp, arg.val)
         IN  IF data = None THEN Trap(cx, "arith_overflow")
             ELSE [cx EXCEPT !.r.sp = data]

\* A faulty match that lacks the arm "111?_1101"; the trap property C10 must
\* reject it
IsUnusedPattern_partial(op) ==
    \/ op \div 16 = 13 /\ op % 8 = 3
    \/ op = 221
    \/ op \div 16 = 14 /\ op % 8 = 3
    \/ op \div 32 = 7 /\ op % 8 = 4

\* The "unused" arms: "1101_?011", "1101_1101", "1110_?011", "111?_?100",
\* "111?_1101"
IsUnusedPattern(op) ==
    \/ op \div 16 = 13 /\ op % 8 = 3
    \/ op = 221
    \/ op \div 16 = 14 /\ op % 8 = 3
    \/ op \div 32 = 7 /\ op % 8 = 4
    \/ op \div 32 = 7 /\ op % 16 = 13

\* The match of execute_instruction: the first arm whose pattern fits
Dispatch(cx, op, arg) ==
    LET x54 == (op \div 16) % 4
        x53 == (op \div 8) % 8
        x43 == (op \div 8) % 4
        x4 == (op \div 16) % 2
        lo3 == op % 8
        lo4 == op % 16
    IN
    IF op = 0 \/ op = 16 THEN cx
    ELSE IF op = 243 THEN [cx EXCEPT !.di = TRUE]
    ELSE IF op = 251 THEN [cx EXCEPT !.ei = TRUE]
    ELSE IF op = 203 THEN cx
    ELSE IF op = 39 THEN WithR(cx, daa(cx.r))
    ELSE IF op = 47 THEN WithR(cx, cpl(cx.r))
    ELSE IF op = 55 THEN exec_scf(cx)
    ELSE IF op = 63 THEN exec_ccf(cx)
    ELSE IF op < 64 /\ lo4 = 1 THEN exec_ld_rr_d16(cx, x54, arg)
    ELSE IF op < 64 /\ lo4 = 2 THEN exec_ld_mem_a(cx, x54)
    ELSE IF op < 64 /\ lo4 = 10 THEN exec_ld_a_mem(cx, x54)
    ELSE IF op < 64 /\ lo4 = 3 THEN exec_inc_rr(cx, x54, arg)
    ELSE IF op < 64 /\ lo4 = 11 THEN exec_dec_rr(cx, x54, arg)
    ELSE IF op < 64 /\ lo3 = 4 THEN exec_inc_r(cx, x53, arg)
    ELSE IF op < 64 /\ lo3 = 5 THEN exec_dec_r(cx, x53, arg)
    ELSE IF op < 64 /\ lo3 = 6 THEN exec_ld_r_d8(cx, x53, arg)
    ELSE IF op \div 64 = 1 THEN exec_ld_r_r(cx, x53, lo3, arg)
    ELSE IF op \div 64 = 2 THEN exec_alu_r(cx, x53, lo3, arg)
    ELSE IF op \div 64 = 3 /\ lo3 = 6 THEN exec_alu_d8(cx, x53, arg)
    ELSE IF op < 64 /\ lo4 = 9 THEN exec_add_hl_rr(cx, x54)
    ELSE IF op \div 64 = 3 /\ lo4 = 1 THEN exec_pop(cx, x54)
    ELSE IF op \div 64 = 3 /\ lo4 = 5 THEN exec_push(cx, x54)
    ELSE IF op \div 64 = 3 /\ lo3 = 7 THEN exec_rst(cx, x53, arg)
    ELSE IF op = 24 THEN exec_jr(cx, arg)
    ELSE IF op \div 32 = 1 /\ lo3 = 0 THEN exec_jr_cond(cx, x43, arg)
    ELSE IF op = 195 THEN exec_jp(cx, arg)
    ELSE IF op = 233 THEN exec_jp_hl(cx)
    ELSE IF op \div 32 = 6 /\ lo3 = 2 THEN exec_jp_cond(cx, x43, arg)
    ELSE IF op = 205 THEN exec_call(cx, arg)
    ELSE IF op \div 32 = 6 /\ lo3 = 4 THEN exec_call_cond(cx, x43, arg)
    ELSE IF op \div 32 = 6 /\ lo4 = 9 THEN exec_ret(cx, x4, arg)
    ELSE IF op \div 32 = 6 /\ lo3 = 0 THEN exec_ret_cond(cx, x43, arg)
    ELSE IF op \div 32 = 0 /\ lo3 = 7 THEN exec_rot_a(cx, x43)
    ELSE IF op \div 32 = 7 /\ lo4 = 0 THEN exec_ldh_a8(cx, x4, arg)
    ELSE IF op \div 32 = 7 /\ lo4 = 2 THEN exec_ldh_c(cx, x4)
    ELSE IF op \div 32 = 7 /\ lo4 = 10 THEN exec_ld_a16(cx, x4, arg)
    ELSE IF op = 8 THEN exec_ld_a16_sp(cx, arg)
    ELSE IF op = 248 THEN exec_ld_hl_sp_r8(cx, arg)
    ELSE IF op = 249 THEN exec_ld_sp_hl(cx)
    ELSE IF op = 232 THEN exec_add_sp_r8(cx, arg)
    ELSE IF IsUnusedPattern(op) THEN Trap(cx, "undefined_opcode")
    ELSE Trap(cx, "no_arm")

\* A faulty pacing that always charges the cycles of the branch not taken;
\* the cycle property C14 must reject it
pause_for_cycles_no_branch(c1, ins) ==
    [cx |-> c1, paused |-> IF c1.trap # "none" THEN << >> ELSE << ins.cycles[1] >>]

\* The call of pause_for_cycles that ends execute_instruction: the cycle
\* counts handed over (none when the handler panicked)
pause_for_cycles(c1, ins) ==
    [cx |-> c1,
     paused |-> IF c1.trap # "none" THEN << >>
                ELSE << IF c1.extra THEN ins.cycles[2] ELSE ins.cycles[1] >>]

\* execute_instruction: the context afterwards and the cycle counts paused for
execute_instruction(cx, ins) == pause_for_cycles(Dispatch(cx, ins.opcode, ins.arg), ins)

-----------------------------------------------------------------------------
(* CPU: the prefixed instructions *)

\* The match on f of execute_prefixed_instruction: the result byte and the
\* registers after set_flags
PrefixedResult(r, f, target) ==
    LET n == f % 8
        b7 == Bit(target, 7)
        b0 == Bit(target, 0)
        c == carry_bit(r)
        flags(res, cy) == set_flags(r, B(res = 0), 0, 0, cy)
    IN
    CASE f = 0 -> LET res == rot_left(target) IN [value |-> res, r |-> flags(res, B(b7 = 1))]
      [] f = 1 -> LET res == rot_right(target) IN [value |-> res, r |-> flags(res, B(b0 = 1))]
      [] f = 2 -> LET res == ((target * 2) % 256) + c IN [value |-> res, r |-> flags(res, B(b7 = 1))]
      [] f = 3 -> LET res == (target \div 2) + 128 * c IN [value |-> res, r |-> flags(res, B(b0 = 1))]
      [] f = 4 -> LET res == (target * 2) % 256 IN [value |-> res, r |-> flags(res, B(b7 = 1))]
      \* sra packs the one-bit x into the two-bit field "xx"
      [] f = 5 -> LET res == 64 * b7 + ((target \div 2) % 64) IN [value |-> res, r |-> flags(res, B(b0 = 1))]
      [] f = 6 -> LET res == (target % 16) * 16 + (target \div 16) IN [value |-> res, r |-> flags(res, 0)]
      [] f = 7 -> LET res == target \div 2 IN [value |-> res, r |-> flags(res, B(b0 = 0))]
      [] f >= 8 /\ f <= 15 ->
            LET b == Bit(target, n) IN [value |-> b, r |-> set_flags(r, B(b = 0), 0, 1, None)]
      [] f >= 16 /\ f <= 23 -> [value |-> target - Bit(target, n) * (2 ^ n), r |-> r]
      [] OTHER -> [value |-> BitOr(target, 2 ^ n), r |-> r]

execute_prefixed_instruction(cx, ins) ==
    LET f == ins.opcode \div 8
        t == ins.opcode % 8
        target == Operand(cx, t)
        res == PrefixedResult(cx.r, f, target)
    IN  IF target = None THEN Trap(cx, "unwrap_none")
        ELSE Store([cx EXCEPT !.r = res.r], t, res.value)

-----------------------------------------------------------------------------
(* CPU: step *)

OpRead_General == "OpRead(General)"

OpRead_PrefixCB == "OpRead(PrefixCB)"

DataRead_Byte == "DataRead(Byte)"

DataRead_ShortLo == "DataRead(ShortLo)"

DataRead_ShortHi == "DataRead(ShortHi)"

Exec == "Exec"

\* A step is taken by a machine that has not panicked
CanStep == trap = "none" /\ steps < MaxSteps

\* memory_controller.read_rom(pc).unwrap() found None
FetchPanics ==
    /\ trap' = "unwrap_none"
    /\ UNCHANGED <<state, instruction, registers, disable_interrupts,
                   enable_interrupts, mbc, console, overflow_checks>>

\* What every step of the CPU records
Stepped(op) ==
    /\ steps' = steps + 1
    /\ ret' = [op |-> op, addr |-> registers.pc, data |-> 0, value |-> read_rom(mbc, registers.pc)]

StepOpReadGeneral ==
    /\ CanStep /\ state = OpRead_General
    /\ Stepped("step")
    /\ paused' = << >>
    /\ LET opcode == read_rom(mbc, registers.pc)
           ins == Instruction_from_opcode(opcode)
       IN  IF opcode = None THEN FetchPanics
           ELSE /\ instruction' = ins
                /\ state' = CASE ins.arg.kind = "None" ->
                                    IF ins.opcode = 203 THEN OpRead_PrefixCB ELSE Exec
                              [] ins.arg.kind \in {"Addr8", "Data8", "Offset8"} -> DataRead_Byte
                              [] OTHER -> DataRead_ShortLo
                /\ registers' = [registers EXCEPT !.pc = wrapping_inc_16(registers.pc)]
                /\ UNCHANGED <<disable_interrupts, enable_interrupts, mbc, console,
                               trap, overflow_checks>>

StepOpReadPrefixCB ==
    /\ CanStep /\ state = OpRead_PrefixCB
    /\ Stepped("step")
    /\ paused' = << >>
    /\ LET byte == read_rom(mbc, registers.pc)
       IN  IF byte = None THEN FetchPanics
           ELSE /\ instruction' = Instruction_prefixed(byte)
                /\ state' = Exec
                /\ registers' = [registers EXCEPT !.pc = wrapping_inc_16(registers.pc)]
                /\ UNCHANGED <<disable_interrupts, enable_interrupts, mbc, console,
                               trap, overflow_checks>>

\* The step of a DataRead state: the argument kinds it accepts, the argument
\* value it builds from the byte read, and the state it moves to
StepDataRead(kinds, newval, next) ==
    /\ Stepped("step")
    /\ paused' = << >>
    /\ LET byte == read_rom(mbc, registers.pc)
       IN  IF byte = None THEN FetchPanics
           ELSE IF instruction.arg.kind \notin kinds
           THEN /\ trap' = "explicit_panic"
                /\ UNCHANGED <<state, instruction, registers, disable_interrupts,
                               enable_interrupts, mbc, console, overflow_checks>>
           ELSE /\ instruction' = [instruction EXCEPT
                                     !.arg.val = newval]
                /\ state' = next
                /\ registers' = [registers EXCEPT !.pc = wrapping_inc_16(registers.pc)]
                /\ UNCHANGED <<disable_interrupts, enable_interrupts, mbc, console,
                               trap, overflow_checks>>

StepDataReadByte ==
    /\ CanStep /\ state = DataRead_Byte
    /\ StepDataRead({"Addr8", "Data8", "Offset8"},
                    IF instruction.arg.kind = "Offset8"
                    THEN AsI8(read_rom(mbc, registers.pc))
                    ELSE read_rom(mbc, registers.pc),
                    Exec)

StepDataReadShortLo ==
    /\ CanStep /\ state = DataRead_ShortLo
    /\ StepDataRead({"Addr16", "Data16"}, read_rom(mbc, registers.pc), DataRead_ShortHi)

\* The variant of the ShortHi step that takes the byte it reads as the low
\* byte and the byte read before it as the high byte
StepDataReadShortHi_low ==
    /\ CanStep /\ state = DataRead_ShortHi
    /\ StepDataRead({"Addr16", "Data16"},
                    BitOr(instruction.arg.val * 256, read_rom(mbc, registers.pc)), Exec)

StepDataReadShortHi ==
    /\ CanStep /\ state = DataRead_ShortHi
    /\ StepDataRead({"Addr16", "Data16"},
                    BitOr(read_rom(mbc, registers.pc) * 256, instruction.arg.val), Exec)

\* The Exec arm of step after the instruction ran: out is what the
\* instruction left, di and ei the latches as they were before it
ExecFinish(out, di, ei) ==
    /\ registers' = out.cx.r
    /\ mbc' = out.cx.m
    /\ trap' = out.cx.trap
    /\ paused' = out.paused
    /\ IF out.cx.trap # "none"
       THEN /\ disable_interrupts' = out.cx.di
            /\ enable_interrupts' = out.cx.ei
            /\ state' = state
       ELSE /\ disable_interrupts' = IF di THEN FALSE ELSE out.cx.di
            /\ enable_interrupts' = IF ei THEN FALSE ELSE out.cx.ei
            /\ state' = OpRead_General

StepExec ==
    /\ CanStep /\ state = Exec
    /\ steps' = steps + 1
    /\ ret' = [op |-> "step", addr |-> registers.pc, data |-> 0, value |-> 0]
    /\ ExecFinish(IF instruction.prefixed
                  THEN [cx |-> execute_prefixed_instruction(Cx(registers, mbc, disable_interrupts, enable_interrupts), instruction), paused |-> << >>]
                  ELSE execute_instruction(Cx(registers, mbc, disable_interrupts, enable_interrupts), instruction),
                  disable_interrupts, enable_interrupts)
    /\ UNCHANGED <<instruction, console, overflow_checks>>

-----------------------------------------------------------------------------
(* The CPU running a program *)

\* ld A,$02; ld C,A; ld B,$04; dec B; loop: add C; dec B; jp nz,loop
MulProgram == <<62, 2, 79, 6, 4, 5, 129, 5, 194, 6, 0>>

\* The program of test_division: ld A,$08; ld B,$02; ld C,$00;
\* loop: inc C; sub B; jp nz,loop; ld A,C
DivProgram == <<62, 8, 6, 2, 14, 0, 12, 144, 194, 6, 0, 121>>

\* ld HL,$1234; push HL; ld HL,$BEEF; pop BC
StackProgram == <<33, 52, 18, 229, 33, 239, 190, 193>>

\* ld SP,sp; ld HL,v; push HL; ld HL,$BEEF; pop BC
PushPopProgram(sp, v) ==
    <<49, sp % 256, sp \div 256, 33, v % 256, v \div 256, 229, 33, 239, 190, 193>>

StackPointers == {0, 1, 49152, 65534}

StackValues == {0, 4660, 65535}

\* What runs before the instruction under test: nothing, or
\* ld A,$9A; ld B,$0F; ld C,$01; ld H,$C0; scf, or xor A (which sets Z)
Preludes == {<< >>, <<62, 154, 6, 15, 14, 1, 38, 192, 55>>, <<175>>}

\* The two bytes that follow the opcode under test
Operands == {<<5, 0>>, <<128, 255>>}

Opcodes == 0 .. 255

\* ROM images of the length of their program
Programs ==
    {MulProgram, DivProgram, StackProgram}
    \cup {PushPopProgram(sp, v) : sp \in StackPointers, v \in StackValues}
    \cup {p \o <<op>> \o a : p \in Preludes, op \in Opcodes, a \in Operands}
    \cup {p \o <<203, op>> : p \in Preludes, op \in Opcodes}

\* A 64 KiB image that jumps to its last byte: jp $FFFF
WrapRom == [len |-> 65536, over |-> (0 :> 195 @@ 1 :> 255 @@ 2 :> 255), seed |-> 0]

Roms == {ROM_new(p) : p \in Programs} \cup {WrapRom}

Ret(op, addr, data, value) == [op |-> op, addr |-> addr, data |-> data, value |-> value]

\* Cpu::init
Cpu_init ==
    /\ state = OpRead_General
    /\ instruction = Instruction_from_opcode(0)
    /\ registers = Registers_init
    /\ disable_interrupts = FALSE
    /\ enable_interrupts = FALSE

Init ==
    /\ Cpu_init
    /\ overflow_checks \in BOOLEAN
    /\ \E rom \in Roms :
          mbc \in {MBC_RomOnly(rom), MBC_Banked("MBC1", rom, 0)}
    /\ console = Console_start(TRUE)
    /\ trap = "none"
    /\ paused = << >>
    /\ ret = Ret("init", 0, 0, 0)
    /\ steps = 0

Next ==
    \/ StepOpReadGeneral
    \/ StepOpReadPrefixCB
    \/ StepDataReadByte
    \/ StepDataReadShortLo
    \/ StepDataReadShortHi
    \/ StepExec

Spec == Init /\ [][Next]_vars

\* The caller keeps calling step
SpecFair == Init /\ [][Next]_vars /\ WF_vars(Next)

\* The programs that are run to their end: the two of the tests, the stack
\* program, and rl C and bit 7,H behind the CB prefix
RunPrograms == {MulProgram, DivProgram, StackProgram, <<203, 17>>, <<203, 124>>}

\* DI or EI, then any instruction with its operand bytes ($0005), or rl C
\* behind the CB prefix
LatchPrograms ==
    {<<l, op, 5, 0>> : l \in {243, 251}, op \in Opcodes}
    \cup {<<l, 203, 17>> : l \in {243, 251}}

\* ld SP,sp; call $0007; nop; ret: the call returns to $0006
CallProgram(sp) == <<49, sp % 256, sp \div 256, 205, 7, 0, 0, 201>>

\* xor A, which sets Z, then call NZ,$0006, call Z,$0006 or call NC,$0006;
\* scf, then call NC,$0006
CondCallPrograms ==
    {<<175, 196, 6, 0, 0, 0, 201>>, <<175, 204, 6, 0, 0, 0, 201>>,
     <<175, 212, 6, 0, 0, 0, 201>>, <<55, 212, 6, 0, 0, 0, 201>>}

CallPrograms == {CallProgram(sp) : sp \in StackPointers} \cup CondCallPrograms

InitRun ==
    /\ Cpu_init
    /\ overflow_checks \in BOOLEAN
    /\ \E p \in RunPrograms \cup LatchPrograms \cup CallPrograms :
          mbc \in {MBC_RomOnly(ROM_new(p)), MBC_Banked("MBC1", ROM_new(p), 0)}
    /\ console = Console_start(TRUE)
    /\ trap = "none"
    /\ paused = << >>
    /\ ret = Ret("init", 0, 0, 0)
    /\ steps = 0

\* The caller keeps calling step on one of the programs above
SpecRun == InitRun /\ [][Next]_vars /\ WF_vars(Next)

-----------------------------------------------------------------------------
(* The register file on its own *)

\* The CPU is idle while the register file, the controller or the bus is
\* driven directly
Idle ==
    /\ state = OpRead_General
    /\ instruction = Instruction_from_opcode(0)
    /\ disable_interrupts = FALSE
    /\ enable_interrupts = FALSE
    /\ trap = "none"
    /\ paused = << >>
    /\ ret = Ret("init", 0, 0, 0)
    /\ steps = 0

\* The values the register file starts from; F holds flags only
AccSamples == {0, 154}

FlagSamples == {0, 176}

PairSamples == {0, 258}

DESamples == {0, 772}

\* The values written to the register pairs
ShortSamples == {255, 4660}

InitRegs ==
    /\ Idle
    /\ \E a \in AccSamples, f \in FlagSamples, bc \in PairSamples,
          de \in DESamples, hl \in PairSamples :
          registers = [Registers_init EXCEPT
                          !.a = a, !.f = f,
                          !.b = bc \div 256, !.c = bc % 256,
                          !.d = de \div 256, !.e = de % 256,
                          !.h = hl \div 256, !.l = hl % 256]
    /\ overflow_checks \in BOOLEAN
    /\ mbc = MBC_RomOnly(ROM_new(MulProgram))
    /\ console = Console_start(TRUE)

RegsFrame ==
    UNCHANGED <<state, instruction, disable_interrupts, enable_interrupts, mbc,
                console, trap, paused, steps, overflow_checks>>

SetBC(val) ==
    /\ registers' = set_bc(registers, val)
    /\ ret' = Ret("set_bc", 0, val, 0)
    /\ RegsFrame

SetDE(val) ==
    /\ registers' = set_de(registers, val)
    /\ ret' = Ret("set_de", 0, val, 0)
    /\ RegsFrame

SetHL(val) ==
    /\ registers' = set_hl(registers, val)
    /\ ret' = Ret("set_hl", 0, val, 0)
    /\ RegsFrame

SetAF(val) ==
    /\ registers' = set_af(registers, val)
    /\ ret' = Ret("set_af", 0, val, 0)
    /\ RegsFrame

GetBC ==
    /\ ret' = Ret("get_bc", 0, 0, get_bc(registers))
    /\ UNCHANGED registers /\ RegsFrame

GetDE ==
    /\ ret' = Ret("get_de", 0, 0, get_de(registers))
    /\ UNCHANGED registers /\ RegsFrame

GetHL ==
    /\ ret' = Ret("get_hl", 0, 0, get_hl(registers))
    /\ UNCHANGED registers /\ RegsFrame

GetAF ==
    /\ ret' = Ret("get_af", 0, 0, get_af(registers))
    /\ UNCHANGED registers /\ RegsFrame

SetFlags(z, n, h, c) ==
    /\ registers' = set_flags(registers, z, n, h, c)
    /\ ret' = Ret("set_flags", 0, 0, 0)
    /\ RegsFrame

OptionBool == {None, 0, 1}

NextRegs ==
    \/ \E val \in ShortSamples : SetBC(val)
    \/ \E val \in ShortSamples : SetDE(val)
    \/ \E val \in ShortSamples : SetHL(val)
    \/ \E val \in ShortSamples : SetAF(val)
    \/ GetBC
    \/ GetDE
    \/ GetHL
    \/ GetAF
    \/ \E z \in OptionBool, c \in OptionBool : SetFlags(z, 0, None, c)

SpecRegs == InitRegs /\ [][NextRegs]_vars

-----------------------------------------------------------------------------
(* The memory bank controllers driven directly *)

\* ROM images of 32 KiB * 2^n: 4 banks, and the largest
RomShifts == {1, MaxRomShift}

BankedRoms == {[len |-> 32768 * (2 ^ n), over |-> << >>, seed |-> 0] : n \in RomShifts}

WriteOffsets == {0, 256, 8192, 8448, 12288, 16384, 24576}

WriteData == {0, 1, 2, 10, 31}

ReadOffsets == {0, 16384, 32767}

\* Bus addresses that Console::write forwards to the cartridge
CartridgeAddresses == {8192, 40960}

\* Bytes written through the bus
BusData == {10, 31}

InitMbc ==
    /\ Idle
    /\ registers = Registers_init
    /\ overflow_checks \in BOOLEAN
    /\ \E rom \in BankedRoms :
          mbc \in {MBC_RomOnly(rom)}
                  \cup {MBC_Banked(kind, rom, 8192) : kind \in MbcKinds \ {"RomOnly"}}
    /\ console = Console_start(TRUE)

MbcFrame ==
    UNCHANGED <<state, instruction, registers, disable_interrupts, enable_interrupts,
                paused, steps, overflow_checks>>

\* MBC::write_rom(offset, data)
WriteRom(offset, data) ==
    /\ trap = "none"
    /\ mbc' = write_rom(mbc, offset, data).mbc
    /\ trap' = write_rom(mbc, offset, data).trap
    /\ ret' = Ret("write_rom", offset, data, 0)
    /\ UNCHANGED console /\ MbcFrame

\* MBC::read_rom(offset)
ReadRom(offset) ==
    /\ trap = "none"
    /\ ret' = Ret("read_rom", offset, 0, read_rom(mbc, offset))
    /\ UNCHANGED <<mbc, console, trap>> /\ MbcFrame

\* Console::write(offset, data)
BusWrite(offset, data) ==
    /\ trap = "none"
    /\ console' = Console_write(console, mbc, offset, data).console
    /\ mbc' = Console_write(console, mbc, offset, data).mbc
    /\ trap' = Console_write(console, mbc, offset, data).trap
    /\ ret' = Ret("write", offset, data, Console_write(console, mbc, offset, data).value)
    /\ MbcFrame

\* Console::read(offset)
BusRead(offset) ==
    /\ trap = "none"
    /\ ret' = Ret("read", offset, 0, Console_read(console, mbc, offset))
    /\ UNCHANGED <<mbc, console, trap>> /\ MbcFrame

NextMbc ==
    \/ \E offset \in WriteOffsets, data \in WriteData : WriteRom(offset, data)
    \/ \E offset \in ReadOffsets : ReadRom(offset)
    \/ \E offset \in CartridgeAddresses, data \in BusData : BusWrite(offset, data)

SpecMbc == InitMbc /\ [][NextMbc]_vars

-----------------------------------------------------------------------------
(* The console bus driven directly *)

BusAddresses == {8192, 40960, 49152, 56831, 57344, 65023, 65184}

InitBus ==
    /\ Idle
    /\ registers = Registers_init
    /\ overflow_checks \in BOOLEAN
    /\ \E rom \in BankedRoms :
          /\ rom.len = 65536
          /\ mbc \in {MBC_RomOnly(rom), MBC_Banked("MBC1", rom, 8192)}
    /\ console = Console_start(TRUE)

NextBus ==
    \/ \E offset \in BusAddresses, data \in BusData : BusWrite(offset, data)
    \/ \E offset \in BusAddresses : BusRead(offset)

SpecBus == InitBus /\ [][NextBus]_vars

-----------------------------------------------------------------------------
(* Properties *)

IsMulRun == mbc.rom = ROM_new(MulProgram)

\* C1: from the initial CPU state with the multiplication program in ROM,
\* stepping eventually brings the pipeline back to OpRead(General) with
\* PC >= 11, and whenever it is there A = 0x08.
C1_MultiplicationReachesEight ==
    /\ [](IsMulRun /\ state = OpRead_General /\ registers.pc >= 11 => registers.a = 8)
    /\ (IsMulRun /\ steps = 0 /\ registers = Registers_init /\ state = OpRead_General)
          ~> (state = OpRead_General /\ registers.pc >= 11 /\ registers.a = 8)

C1_Witness ==
    /\ IsMulRun /\ trap = "none" /\ steps = 34
    /\ state = OpRead_General /\ registers.pc = 11 /\ registers.a = 8 /\ registers.b = 0

\* The POP BC that ends a stack program has run: it completed, or it panicked
PopBCRan == instruction.opcode = 193 /\ ~instruction.prefixed /\ steps > 0

\* C2: PUSH of a pair holding v followed by POP leaves the popped pair equal
\* to v and SP as it was before the PUSH, for every v and starting SP; after
\* ld HL,$1234; push HL; ld HL,$BEEF; pop BC: B = 0x12, C = 0x34, SP restored.
C2_PushPopRestores ==
    /\ (mbc.rom = ROM_new(StackProgram) /\ PopBCRan) =>
          IF state = Exec THEN trap = "none"
          ELSE registers.b = 18 /\ registers.c = 52 /\ registers.sp = 0
    /\ \A sp \in StackPointers, v \in StackValues :
          (mbc.rom = ROM_new(PushPopProgram(sp, v)) /\ PopBCRan) =>
             IF state = Exec THEN trap = "none"
             ELSE registers.b * 256 + registers.c = v /\ registers.sp = sp

C2_Witness ==
    /\ mbc.rom = ROM_new(StackProgram) /\ mbc.kind = "RomOnly"
    /\ PopBCRan /\ state = Exec /\ trap = "unwrap_none"
    /\ registers.h = 190 /\ registers.l = 239 /\ registers.sp = 65534

\* C3: for each pair (A,F), (B,C), (D,E), (H,L): get_XY() is (X << 8) | Y;
\* set_XY(v) sets X = v >> 8 and Y = v & 0xFF and no other register; and
\* set_XY(get_XY()) leaves every register unchanged.
C3_PairAliasing ==
    /\ get_af(registers) = registers.a * 256 + registers.f
    /\ get_bc(registers) = registers.b * 256 + registers.c
    /\ get_de(registers) = registers.d * 256 + registers.e
    /\ get_hl(registers) = registers.h * 256 + registers.l
    /\ \A v \in ShortSamples :
          /\ set_af(registers, v) = [registers EXCEPT !.a = v \div 256, !.f = v % 256]
          /\ set_bc(registers, v) = [registers EXCEPT !.b = v \div 256, !.c = v % 256]
          /\ set_de(registers, v) = [registers EXCEPT !.d = v \div 256, !.e = v % 256]
          /\ set_hl(registers, v) = [registers EXCEPT !.h = v \div 256, !.l = v % 256]
    /\ set_af(registers, get_af(registers)) = registers
    /\ set_bc(registers, get_bc(registers)) = registers
    /\ set_de(registers, get_de(registers)) = registers
    /\ set_hl(registers, get_hl(registers)) = registers
    /\ ret.op = "get_de" => ret.value = registers.d * 256 + registers.e

C3_Witness ==
    /\ ret.op = "get_de" /\ registers.d = 3 /\ registers.e = 4 /\ registers.c = 2
    /\ ret.value = 770

\* C4: the low nibble of F is zero in every state, also after set_af with an
\* arbitrary 16-bit value.
C4_FlagLowNibbleZero == registers.f % 16 = 0

C4_Witness == ret.op = "set_af" /\ ret.data = 255 /\ registers.f = 255

\* The bank a ROM-space read is served from
PhysicalBank(m, offset) == read_rom_index(m, offset) \div 16384

\* C5: for MBC1, a read of an offset in 0x4000-0x7FFF is never served from
\* physical bank 0, 0x20, 0x40 or 0x60.
C5_Mbc1NeverReadsForbiddenBank ==
    (ret.op = "read_rom" /\ mbc.kind = "MBC1" /\ ret.addr >= 16384 /\ ret.value # None)
        => PhysicalBank(mbc, ret.addr) \notin {0, 32, 64, 96}

C5_Witness ==
    /\ ret.op = "read_rom" /\ mbc.kind = "MBC1" /\ ret.addr = 16384
    /\ mbc.active_rom_bank = 31 /\ ret.value # None
    /\ PhysicalBank(mbc, ret.addr) = 32

\* The bank the specification reads the switchable window from
ClaimedBank(m) ==
    CASE m.kind = "MBC1" -> MBC1_active_rom_bank(m)
      [] m.kind = "RomOnly" -> 1
      [] OTHER -> m.active_rom_bank

\* C6: read_rom(offset) is ROM[offset] below 0x4000 and
\* ROM[active_bank * 0x4000 + (offset - 0x4000)] in 0x4000-0x7FFF; an MBC1
\* with 4 banks whose bank register holds 0 reads ROM[0x4000] at 0x4000.
C6_ReadRomAddressing ==
    /\ ret.op = "read_rom" =>
          ret.value = IF ret.addr < 16384
                      THEN ROM_read_byte(mbc.rom, ret.addr)
                      ELSE ROM_read_byte(mbc.rom,
                                         ClaimedBank(mbc) * 16384 + (ret.addr - 16384))
    /\ (/\ ret.op = "read_rom" /\ ret.addr = 16384
        /\ mbc.kind = "MBC1" /\ mbc.rom.len = 65536 /\ mbc.active_rom_bank = 0)
          => ret.value = RomByte(mbc.rom, 16384)

C6_Witness ==
    /\ ret.op = "read_rom" /\ ret.addr = 16384
    /\ mbc.kind = "MBC1" /\ mbc.rom.len = 65536 /\ mbc.active_rom_bank = 0
    /\ mbc.mode = "RomSelect"
    /\ ret.value = RomByte(mbc.rom, 32768)
    /\ ret.value # RomByte(mbc.rom, 16384)

\* C7: a bus write of b to 0xC000+d is read back at 0xE000+d, and a bus
\* write of b to 0xE000+d is read back at 0xC000+d, for d in 0..0x1DFF.
C7_EchoRoundTrip ==
    /\ (ret.op = "write" /\ ret.addr >= WRAM_START /\ ret.addr <= WRAM_START + 7679)
          => Console_read(console, mbc, ret.addr + 8192) = ret.data
    /\ (ret.op = "write" /\ ret.addr >= ECHO_RAM_START /\ ret.addr <= ECHO_RAM_START + 7679)
          => Console_read(console, mbc, ret.addr - 8192) = ret.data

C7_Witness ==
    /\ ret.op = "write" /\ ret.addr = ECHO_RAM_START + 7679 /\ ret.data = 31
    /\ ret.value = None
    /\ Console_read(console, mbc, WRAM_START + 7679) = 0

\* C8: a write_rom call, made directly or by a bus write below 0x8000, leaves
\* the ROM image byte-identical for every controller; only the controller's
\* registers may change.
C8_WriteRomKeepsRom ==
    [][(\/ ret'.op = "write_rom"
        \/ ret'.op = "write" /\ ret'.addr < CHR_RAM_START) =>
          /\ mbc'.rom = mbc.rom
          /\ mbc'.ram = mbc.ram
          /\ mbc'.kind = mbc.kind]_vars

C8_Witness ==
    /\ ret.op = "write_rom" /\ ret.addr = 8192 /\ ret.data = 31
    /\ mbc.kind = "MBC1" /\ mbc.active_rom_bank = 95 /\ mbc.mode = "RamSelect"
    /\ mbc.ram_enabled

\* The unprefixed opcodes whose handler assigns PC
ControlFlowOpcodes ==
    {24, 32, 40, 48, 56, 195, 233, 194, 202, 210, 218, 205, 196, 204, 212, 220,
     201, 217, 192, 200, 208, 216, 199, 207, 215, 223, 231, 239, 247, 255}

\* The state OpRead(General) moves to on the opcode fetched
AfterOpRead(opcode) ==
    LET kind == INSTRUCTIONS[opcode + 1][1]
    IN  IF opcode = 203 THEN OpRead_PrefixCB
        ELSE IF kind = "None" THEN Exec
        ELSE IF kind \in {"Addr8", "Data8", "Offset8"} THEN DataRead_Byte
        ELSE DataRead_ShortLo

UndefinedOpcodes == {211, 219, 221, 227, 228, 235, 236, 237, 244, 252, 253}

\* C10: Exec of an undefined opcode ends in a trap and changes neither the
\* registers nor memory; every other unprefixed opcode reaches a handler.
C10_UndefinedOpcodesTrap ==
    [][(state = Exec /\ ~instruction.prefixed /\ steps' = steps + 1) =>
          IF instruction.opcode \in UndefinedOpcodes
          THEN /\ trap' = "undefined_opcode"
               /\ UNCHANGED <<registers, mbc, console, state, instruction,
                              disable_interrupts, enable_interrupts>>
          ELSE trap' \notin {"undefined_opcode", "no_arm"}]_vars

C10_Witness ==
    /\ trap = "undefined_opcode" /\ state = Exec /\ instruction.opcode = 253
    /\ instruction.cycles = <<0, 0>> /\ registers.a = 154 /\ registers.pc = 10


-----------------------------------------------------------------------------
(* The accumulator and pair arithmetic of the register file driven directly *)

\* A run applies at most this many register-file operations.
MaxAluOps == 2

AluAcc == {0, 15, 255}

AluData == {1, 255}

AluFlags == {0, 240}

\* BC, DE, HL as the run starts
AluPairs == {<<258, 772, 255>>, <<65535, 65535, 65535>>}

InitAlu ==
    /\ Idle
    /\ \E a \in AluAcc, f \in AluFlags, p \in AluPairs :
          registers = [Registers_init EXCEPT
                          !.a = a, !.f = f,
                          !.b = p[1] \div 256, !.c = p[1] % 256,
                          !.d = p[2] \div 256, !.e = p[2] % 256,
                          !.h = p[3] \div 256, !.l = p[3] % 256]
    /\ overflow_checks \in BOOLEAN
    /\ mbc = MBC_RomOnly(ROM_new(MulProgram))
    /\ console = Console_start(TRUE)

AluFrame ==
    UNCHANGED <<state, instruction, disable_interrupts, enable_interrupts, mbc,
                console, paused, overflow_checks>>

\* The register file takes a call while it has not panicked
CanAlu == trap = "none" /\ steps < MaxAluOps

\* A call of a register-file operation: res is what the operation yields
AluCall(op, data, res) ==
    /\ steps' = steps + 1
    /\ registers' = res.r
    /\ trap' = res.trap
    /\ ret' = Ret(op, 0, data, 0)
    /\ AluFrame

Add(data) ==
    /\ CanAlu
    /\ AluCall("add", data, add(registers, data))

Adc(data) ==
    /\ CanAlu
    /\ AluCall("adc", data, adc(registers, data))

Sub(data) ==
    /\ CanAlu
    /\ AluCall("sub", data, sub(registers, data))

Sbc(data) ==
    /\ CanAlu
    /\ AluCall("sbc", data, sbc(registers, data))

Cp(data) ==
    /\ CanAlu
    /\ AluCall("cp", data, cp(registers, data))

Daa ==
    /\ CanAlu
    /\ AluCall("daa", 0, daa(registers))

\* The accumulator rotation selected by the field x of "000x_x111"
RotA(x) ==
    /\ CanAlu
    /\ AluCall(<<"rlca", "rrca", "rla", "rra">>[x + 1], 0,
               CASE x = 0 -> rlca(registers)
                 [] x = 1 -> rrca(registers)
                 [] x = 2 -> rla(registers)
                 [] OTHER -> rra(registers))

IncBC ==
    /\ CanAlu
    /\ AluCall("inc_bc", 0, Done(inc_bc(registers)))

DecBC ==
    /\ CanAlu
    /\ AluCall("dec_bc", 0, Done(dec_bc(registers)))

IncDE ==
    /\ CanAlu
    /\ AluCall("inc_de", 0, Done(inc_de(registers)))

DecDE ==
    /\ CanAlu
    /\ AluCall("dec_de", 0, Done(dec_de(registers)))

IncHL ==
    /\ CanAlu
    /\ AluCall("inc_hl", 0, Done(inc_hl(registers)))

DecHL ==
    /\ CanAlu
    /\ AluCall("dec_hl", 0, Done(dec_hl(registers)))

NextAlu ==
    \/ \E data \in AluData : Add(data)
    \/ \E data \in AluData : Adc(data)
    \/ \E data \in AluData : Sub(data)
    \/ \E data \in AluData : Sbc(data)
    \/ \E data \in AluData : Cp(data)
    \/ Daa
    \/ \E x \in 0 .. 3 : RotA(x)
    \/ IncBC
    \/ DecBC
    \/ IncDE
    \/ DecDE
    \/ IncHL
    \/ DecHL

SpecAlu == InitAlu /\ [][NextAlu]_vars

\* The sum of a, d and the carry-in c as a byte
SumOf(a, d, c) == (a + d + c) % 256

\* C11: ADD leaves A = (a+d) mod 256, Z iff that is 0, N = 0, H iff the low
\* nibbles of a and d carry, C iff a+d > 0xFF; ADC leaves A = (a+d+c) mod 256
\* and C iff a+d+c > 0xFF; neither traps, also for d = 0xFF with c = 1.
C11_AddAdcFlags ==
    [][/\ ret'.op = "add" =>
             /\ trap' = "none"
             /\ registers'.a = SumOf(registers.a, ret'.data, 0)
             /\ zero(registers') <=> (SumOf(registers.a, ret'.data, 0) = 0)
             /\ ~neg(registers')
             /\ half_carry(registers') <=> ((registers.a % 16) + (ret'.data % 16) >= 16)
             /\ carry(registers') <=> (registers.a + ret'.data > 255)
       /\ ret'.op = "adc" =>
             /\ trap' = "none"
             /\ registers'.a = SumOf(registers.a, ret'.data, carry_bit(registers))
             /\ carry(registers') <=>
                   (registers.a + ret'.data + carry_bit(registers) > 255)]_vars

\* ADD of 0x01 to A = 0xFF has run: A = 0, Z and C set, H clear
C11_Witness ==
    /\ ret.op = "add" /\ ret.data = 1 /\ steps = 1 /\ trap = "none"
    /\ registers.a = 0 /\ zero(registers) /\ carry(registers)
    /\ ~half_carry(registers) /\ ~neg(registers)

\* C12: SUB leaves A = (a-d) mod 256, Z iff that is 0, N = 1, H iff the low
\* nibble of a is below that of d, C iff a < d; SBC leaves A = (a-d-c) mod 256,
\* N = 1 and C iff a < d+c; neither traps, also for d = 0xFF with c = 1.
C12_SubSbcFlags ==
    [][/\ ret'.op = "sub" =>
             /\ trap' = "none"
             /\ registers'.a = (registers.a - ret'.data + 256) % 256
             /\ zero(registers') <=> (registers.a = ret'.data)
             /\ neg(registers')
             /\ half_carry(registers') <=> ((registers.a % 16) < (ret'.data % 16))
             /\ carry(registers') <=> (registers.a < ret'.data)
       /\ ret'.op = "sbc" =>
             /\ trap' = "none"
             /\ registers'.a =
                   (registers.a - ret'.data - carry_bit(registers) + 512) % 256
             /\ neg(registers')
             /\ carry(registers') <=>
                   (registers.a < ret'.data + carry_bit(registers))]_vars

\* SBC of 0xFF with the carry set has run in a build with overflow checks:
\* data + carry_bit() overflowed
C12_Witness ==
    /\ ret.op = "sbc" /\ ret.data = 255 /\ steps = 1 /\ overflow_checks
    /\ trap = "arith_overflow" /\ registers.a = 15 /\ carry(registers)


\* INC r8 is "00xx_x100", DEC r8 is "00xx_x101"
IncDecOpcodes == {op \in 0 .. 63 : op % 8 \in {4, 5}}

\* C13: INC r8 leaves r = (r+1) mod 256, Z iff that is 0, N = 0, H iff the low
\* nibble of r was 0x0F; DEC r8 leaves r = (r-1) mod 256, Z iff that is 0,
\* N = 1, H iff the low nibble of r was 0x00; both keep C and neither traps,
\* also for the operand (HL).
C13_IncDecR8 ==
    [][(/\ state = Exec /\ ~instruction.prefixed /\ steps' = steps + 1
        /\ instruction.opcode \in IncDecOpcodes) =>
          LET x == instruction.opcode \div 8
              inc == instruction.opcode % 8 = 4
              before == registers[RegNames[x + 1]]
              after == registers'[RegNames[x + 1]]
          IN  /\ trap' = "none"
              /\ x # 6 =>
                    /\ after = IF inc THEN (before + 1) % 256 ELSE (before + 255) % 256
                    /\ zero(registers') <=> (after = 0)
                    /\ neg(registers') <=> ~inc
                    /\ half_carry(registers') <=> (before % 16 = IF inc THEN 15 ELSE 0)
                    /\ carry(registers') <=> carry(registers)]_vars

\* INC B has run on B = 0x0F with every flag but C clear: B = 0x10, H clear
C13_Witness ==
    /\ instruction.opcode = 4 /\ ~instruction.prefixed /\ state = OpRead_General
    /\ trap = "none" /\ steps = 16
    /\ registers.b = 16 /\ ~half_carry(registers) /\ carry(registers)


\* jr cc "001x_x000", jp cc "110x_x010", call cc "110x_x100", ret cc "110x_x000"
ConditionalOpcodes ==
    {32, 40, 48, 56} \cup {194, 202, 210, 218} \cup {196, 204, 212, 220}
    \cup {192, 200, 208, 216}

C15_Mbc1BankWrites ==
    [][(ret'.op = "write_rom" /\ mbc.kind = "MBC1") =>
          /\ (ret'.addr >= 8192 /\ ret'.addr <= 16383) =>
                mbc'.active_rom_bank =
                    BitAnd(mbc.active_rom_bank, 96) + (ret'.data % 32)
          /\ (ret'.addr >= 16384 /\ ret'.addr <= 24575) =>
                IF mbc.mode = "RamSelect"
                THEN /\ mbc'.active_ram_bank = ret'.data % 4
                     /\ mbc'.active_rom_bank = mbc.active_rom_bank
                ELSE /\ mbc'.active_rom_bank =
                            (ret'.data % 4) * 32 + (mbc.active_rom_bank % 32)
                     /\ mbc'.active_ram_bank = mbc.active_ram_bank]_vars

\* A fresh MBC1 in ROM-select mode took write_rom(0x4000, 0x01): bits 5-6 of
\* the ROM bank are still 0
C15_Witness ==
    /\ ret.op = "write_rom" /\ ret.addr = 16384 /\ ret.data = 1
    /\ mbc.kind = "MBC1" /\ mbc.mode = "RomSelect" /\ ~mbc.ram_enabled
    /\ mbc.active_rom_bank = 1 /\ mbc.active_ram_bank = 1


\* C16: for MBC2 a control write (offset below 0x4000) with bit 8 of the
\* offset clear changes the RAM-enable flag only, one with bit 8 set makes the
\* low 4 bits of the value the active ROM bank, and reads at 0x4000 and above
\* are served from the selected bank.
C16_Mbc2ControlWrites ==
    [][/\ (ret'.op = "write_rom" /\ mbc.kind = "MBC2" /\ ret'.addr <= 16383) =>
             IF BitAnd(ret'.addr, 256) = 0
             THEN mbc' = [mbc EXCEPT !.ram_enabled = mbc'.ram_enabled]
             ELSE mbc'.active_rom_bank = ret'.data % 16
       /\ (ret'.op = "read_rom" /\ mbc.kind = "MBC2" /\ ret'.addr >= 16384) =>
             ret'.value = ROM_read_byte(mbc.rom, mbc.active_rom_bank * 16384
                                                     + (ret'.addr - 16384))]_vars

\* A fresh MBC2 took write_rom(0x2100, 0x02): the active ROM bank is still 1
C16_Witness ==
    /\ ret.op = "write_rom" /\ ret.addr = 8448 /\ ret.data = 2
    /\ mbc.kind = "MBC2" /\ mbc.active_rom_bank = 1 /\ ~mbc.ram_enabled


\* C17: for MBC5 a write of v to 0x2000-0x2FFF makes v the low 8 bits of the
\* active ROM bank and keeps bit 8; a write of v to 0x3000-0x3FFF makes bit 0
\* of v bit 8 of the active ROM bank and keeps the low 8 bits; neither reads
\* or changes the active RAM bank, and neither traps.
C17_Mbc5BankWrites ==
    [][(ret'.op = "write_rom" /\ mbc.kind = "MBC5") =>
          /\ (ret'.addr >= 8192 /\ ret'.addr <= 12287) =>
                /\ trap' = "none"
                /\ mbc'.active_rom_bank = BitAnd(mbc.active_rom_bank, 256) + ret'.data
                /\ mbc'.active_ram_bank = mbc.active_ram_bank
          /\ (ret'.addr >= 12288 /\ ret'.addr <= 16383) =>
                /\ trap' = "none"
                /\ mbc'.active_rom_bank =
                      (ret'.data % 2) * 256 + (mbc.active_rom_bank % 256)
                /\ mbc'.active_ram_bank = mbc.active_ram_bank]_vars

\* An MBC5 with RAM bank 2 took write_rom(0x3000, 0x01) in a build without
\* overflow checks: the ROM bank is 1 | 2, made of the RAM bank
C17_Witness ==
    /\ ret.op = "write_rom" /\ ret.addr = 12288 /\ ret.data = 1
    /\ mbc.kind = "MBC5" /\ trap = "none" /\ ~overflow_checks
    /\ mbc.active_rom_bank = 3 /\ mbc.active_ram_bank = 2


\* The registers of a controller that its bank-control logic writes
ControlRegisters(m) == <<m.ram_enabled, m.active_rom_bank, m.active_ram_bank, m.mode>>

\* C18: a bus write to 0xA000-0xBFFF is a cartridge-RAM write and never
\* changes the controller's RAM-enable flag, active ROM bank, active RAM bank
\* or mode; only bus writes to 0x0000-0x7FFF reach the bank-control logic.
C18_CartridgeRamWriteFrame ==
    [][(ret'.op = "write" /\ ret'.addr >= CHR_RAM_START) =>
          ControlRegisters(mbc') = ControlRegisters(mbc)]_vars

\* A fresh MBC1 took the bus write of 0x0A to 0xA000: its RAM is now enabled
C18_Witness ==
    /\ ret.op = "write" /\ ret.addr = CARTRIDGE_RAM_START /\ ret.data = 10
    /\ mbc.kind = "MBC1" /\ mbc.ram_enabled /\ mbc.active_rom_bank = 1
    /\ trap = "none"


\* C19: for BC, DE and HL, inc_rr followed by dec_rr gives back the register
\* file it started from: the pair, every other register and the four flags.
C19_IncDecPairIdentity ==
    /\ dec_bc(inc_bc(registers)) = registers
    /\ dec_de(inc_de(registers)) = registers
    /\ dec_hl(inc_hl(registers)) = registers

\* inc_de has run on DE = 0x0304 with C = 0x02: DE is 0x0303, and the dec_de
\* that follows leaves 0x0301
C19_Witness ==
    /\ ret.op = "inc_de" /\ steps = 1 /\ trap = "none"
    /\ registers.d = 3 /\ registers.e = 3 /\ registers.c = 2
    /\ dec_de(registers).e = 1


-----------------------------------------------------------------------------
(* Cartridge validation *)

\* The reference scrolling graphic of Cartridge::validate
nintendo_graphic ==
    <<206, 237, 102, 102, 204, 13, 0, 11,
      3, 115, 0, 131, 0, 12, 0, 13,
      0, 8, 17, 31, 136, 137, 0, 14,
      220, 204, 110, 230, 221, 221, 217, 153,
      187, 187, 103, 99, 110, 14, 236, 204,
      221, 220, 153, 159, 187, 185, 51, 62>>

\* ROM::read_bytes(start, end): Some(the bytes of start .. end - 1) as the
\* one-element sequence holding them, None as the empty sequence
ROM_read_bytes(rom, start, end) ==
    IF end > rom.len \/ start > end THEN << >>
    ELSE << [k \in 1 .. (end - start) |-> RomByte(rom, start + k - 1)] >>

\* MBC::read_rom_slice(start, end)
read_rom_slice(m, start, end) ==
    IF m.kind = "RomOnly" \/ start < 16384
    THEN ROM_read_bytes(m.rom, start, end)
    ELSE ROM_read_bytes(m.rom, 16384 * m.active_rom_bank + start,
                        16384 * m.active_rom_bank + end)

\* The variant of non_matching_bytes that stops at the first mismatch
non_matching_bytes_first(slice) ==
    LET n == IF Len(slice) < 48 THEN Len(slice) ELSE 48
        zipped == [k \in 1 .. n |-> <<k - 1, nintendo_graphic[k], slice[k]>>]
        all == SelectSeq(zipped, LAMBDA e : e[2] # e[3])
    IN  IF all = << >> THEN << >> ELSE << all[1] >>

\* non_matching_bytes: the reference bytes, enumerated and zipped with the
\* slice read from the ROM, filtered to the pairs that differ, as
\* (index, reference byte, ROM byte)
non_matching_bytes(slice) ==
    LET n == IF Len(slice) < 48 THEN Len(slice) ELSE 48
        zipped == [k \in 1 .. n |-> <<k - 1, nintendo_graphic[k], slice[k]>>]
    IN  SelectSeq(zipped, LAMBDA e : e[2] # e[3])

\* The variant of header_fold that subtracts the bytes only
RECURSIVE header_fold_bytes_only(_, _)
header_fold_bytes_only(c, bytes) ==
    IF bytes = << >> THEN c
    ELSE header_fold_bytes_only((c + 256 - bytes[1]) % 256, Tail(bytes))

\* The fold of validate over the header bytes: wrapping_sub(x), wrapping_sub(1)
RECURSIVE header_fold(_, _)
header_fold(c, bytes) ==
    IF bytes = << >> THEN c
    ELSE header_fold((c + 512 - bytes[1] - 1) % 256, Tail(bytes))

\* header_checksum as Cartridge::load sets it: the byte at 0x14D, or 0
Cartridge_header_checksum(m) ==
    IF 333 < m.rom.len THEN RomByte(m.rom, 333) ELSE 0

\* The controller Cartridge::load builds: MBC1 when the cartridge type byte
\* at 0x147 lists MBC1, the bare ROM otherwise (RAM::new gives a RAM of
\* length 0 whatever the byte at 0x149 says)
Cartridge_load(rom) ==
    IF 327 < rom.len /\ RomByte(rom, 327) \in {1, 2, 3}
    THEN MBC_Banked("MBC1", rom, 0)
    ELSE MBC_RomOnly(rom)

\* Cartridge::validate: Ok, Err with the report of the mismatching bytes of
\* the graphic (one line per byte: offset, expected, found), Err with the two
\* checksums, or the panic of an unwrap on a slice the ROM does not hold
validate(m) ==
    LET graphic == read_rom_slice(m, 260, 260 + 48)
        header == read_rom_slice(m, 308, 333)
    IN  IF graphic = << >>
        THEN [trap |-> "unwrap_none", value |-> [kind |-> "panic", report |-> << >>]]
        ELSE IF non_matching_bytes(graphic[1]) # << >>
        THEN [trap |-> "none",
              value |-> [kind |-> "Err_graphic",
                         report |-> [k \in 1 .. Len(non_matching_bytes(graphic[1])) |->
                                       <<260 + non_matching_bytes(graphic[1])[k][1],
                                         non_matching_bytes(graphic[1])[k][2],
                                         non_matching_bytes(graphic[1])[k][3]>>]]]
        ELSE IF header = << >>
        THEN [trap |-> "unwrap_none", value |-> [kind |-> "panic", report |-> << >>]]
        ELSE IF header_fold(0, header[1]) # Cartridge_header_checksum(m)
        THEN [trap |-> "none",
              value |-> [kind |-> "Err_checksum",
                         report |-> <<Cartridge_header_checksum(m), header_fold(0, header[1])>>]]
        ELSE [trap |-> "none", value |-> [kind |-> "Ok", report |-> << >>]]

\* Lengths of the ROM files: cut inside the graphic, cut inside the header,
\* and holding the whole header
CartLens == {288, 320, 336}

\* Indexes of the graphic whose byte an image replaces, and the replacements
\* (the reference byte at index 6 is 0x00)
CartIndexes == {0, 6, 47}

CartBytes == {0, 255}

\* Bytes at 0x147 (cartridge type) and at 0x14D (header checksum)
CartTypes == {0, 1}

CartChecksums == {0, 237, 238}

CartImage(len, changed, byte, type, sum) ==
    [len |-> len,
     over |-> [i \in {j \in (260 .. 307) \cup {327, 333} : j < len} |->
                 CASE i = 327 -> type
                   [] i = 333 -> sum
                   [] OTHER -> IF (i - 260) \in changed THEN byte
                               ELSE nintendo_graphic[i - 260 + 1]],
     seed |-> 0]

CartImages ==
    {CartImage(len, changed, byte, type, sum) :
        len \in CartLens, changed \in SUBSET CartIndexes, byte \in CartBytes,
        type \in CartTypes, sum \in CartChecksums}

\* The title Cartridge::load parses: the bytes at 0x134 .. 0x142 that the
\* file holds and that are not 0x00, each pushed as a char
RECURSIVE Cartridge_title(_, _)
Cartridge_title(rom, i) ==
    IF i >= 323 THEN << >>
    ELSE IF i < rom.len /\ RomByte(rom, i) # 0
         THEN <<RomByte(rom, i)>> \o Cartridge_title(rom, i + 1)
         ELSE Cartridge_title(rom, i + 1)

\* Title fields of ROM files: "AB", "A" NUL "B", NUL "AB", and 15 letters
CartTitles ==
    {<<65, 66, 0, 0, 0, 0, 0, 0, 0, 0, 0, 0, 0, 0, 0>>,
     <<65, 0, 66, 0, 0, 0, 0, 0, 0, 0, 0, 0, 0, 0, 0>>,
     <<0, 65, 66, 0, 0, 0, 0, 0, 0, 0, 0, 0, 0, 0, 0>>,
     <<65, 66, 67, 68, 69, 70, 71, 72, 73, 74, 75, 76, 77, 78, 79>>}

\* ROM files with a title field, whole or cut after 0x135
TitleImages ==
    {[len |-> len,
      over |-> [i \in {j \in 308 .. 322 : j < len} |-> title[i - 307]],
      seed |-> 0] : len \in {310, 336}, title \in CartTitles}

\* Cartridge::load on a ROM file
InitCart ==
    /\ Idle
    /\ registers = Registers_init
    /\ overflow_checks \in BOOLEAN
    /\ \E rom \in CartImages \cup TitleImages : mbc = Cartridge_load(rom)
    /\ console = Console_start(TRUE)

CartFrame ==
    UNCHANGED <<state, instruction, registers, disable_interrupts, enable_interrupts,
                mbc, console, paused, steps, overflow_checks>>

\* Cartridge::validate
Validate ==
    /\ trap = "none"
    /\ trap' = validate(mbc).trap
    /\ ret' = Ret("validate", 0, 0, validate(mbc).value)
    /\ CartFrame

\* Cartridge::is_valid
IsValid ==
    /\ trap = "none"
    /\ trap' = validate(mbc).trap
    /\ ret' = Ret("is_valid", 0, 0, B(validate(mbc).value.kind = "Ok"))
    /\ CartFrame

\* Cartridge::load of another ROM file: the cartridge it returns, with the
\* title and the header checksum it parsed
Load(rom) ==
    /\ trap = "none"
    /\ mbc' = Cartridge_load(rom)
    /\ ret' = Ret("load", 0, 0,
                  [title |-> Cartridge_title(rom, 308),
                   header_checksum |-> Cartridge_header_checksum(Cartridge_load(rom))])
    /\ UNCHANGED <<state, instruction, registers, disable_interrupts, enable_interrupts,
                   console, paused, steps, overflow_checks, trap>>

NextCart ==
    \/ Validate
    \/ IsValid
    \/ \E rom \in TitleImages : Load(rom)

SpecCart == InitCart /\ [][NextCart]_vars

\* The indexes of the graphic at which the ROM differs from the reference
LogoMismatches ==
    {i \in 0 .. 47 : RomByte(mbc.rom, 260 + i) # nintendo_graphic[i + 1]}

RECURSIVE RomSum(_, _, _)
RomSum(rom, from, to) ==
    IF from > to THEN 0 ELSE RomByte(rom, from) + RomSum(rom, from + 1, to)

\* x of the header checksum rule in closed form: 0 minus the 25 bytes at
\* 0x0134 .. 0x014C minus 25, modulo 256
HeaderX == (25 * 256 - RomSum(mbc.rom, 308, 332) - 25) % 256

RECURSIVE TitleUpToNul(_, _)
TitleUpToNul(rom, i) ==
    IF i >= 323 \/ i >= rom.len \/ RomByte(rom, i) = 0 THEN << >>
    ELSE <<RomByte(rom, i)>> \o TitleUpToNul(rom, i + 1)

\* C22: the title of a loaded cartridge is the bytes at 0x0134 .. 0x0142 up
\* to but excluding the first NUL; no byte after the first NUL is in it.
C22_TitleStopsAtNul ==
    ret.op = "load" => ret.value.title = TitleUpToNul(mbc.rom, 308)

\* load has run on a file whose title field is "A", NUL, "B", NULs: the
\* parsed title is "AB", with the B that follows the NUL
C22_Witness ==
    /\ ret.op = "load" /\ trap = "none"
    /\ mbc.rom.len = 336
    /\ RomByte(mbc.rom, 308) = 65 /\ RomByte(mbc.rom, 309) = 0
    /\ RomByte(mbc.rom, 310) = 66
    /\ ret.value.title = <<65, 66>>
    /\ TitleUpToNul(mbc.rom, 308) = <<65>>


IsDivRun == mbc.rom = ROM_new(DivProgram)

\* C23: from the initial CPU state with the division program in ROM,
\* stepping eventually brings the pipeline back to OpRead(General) with
\* PC >= 12, and whenever it is there A = 0x04.
C23_DivisionReachesFour ==
    /\ [](IsDivRun /\ state = OpRead_General /\ registers.pc >= 12 => registers.a = 4)
    /\ (IsDivRun /\ steps = 0 /\ registers = Registers_init /\ state = OpRead_General)
          ~> (state = OpRead_General /\ registers.pc >= 12 /\ registers.a = 4)

C23_Witness ==
    /\ IsDivRun /\ trap = "none"
    /\ state = OpRead_General /\ registers.pc = 12 /\ registers.a = 4


\* The step that is taken is the Exec of the unprefixed opcode op, and it
\* completes
ExecOf(op) ==
    /\ state = Exec /\ ~instruction.prefixed /\ instruction.opcode = op
    /\ state' = OpRead_General /\ trap' = "none"

\* C24: the Exec of EI (DI) leaves the enable (disable) latch set, also when
\* the latch of the EI or DI before it was still pending; the fetch phases
\* leave both latches as they are; the Exec of any other instruction leaves
\* both latches clear.
C24_DeferredLatches ==
    [][/\ ExecOf(251) => enable_interrupts'
       /\ ExecOf(243) => disable_interrupts'
       /\ state # Exec => /\ enable_interrupts' = enable_interrupts
                          /\ disable_interrupts' = disable_interrupts
       /\ (state = Exec /\ state' = OpRead_General /\ trap' = "none"
           /\ ~(~instruction.prefixed /\ instruction.opcode = 251))
             => ~enable_interrupts'
       /\ (state = Exec /\ state' = OpRead_General /\ trap' = "none"
           /\ ~(~instruction.prefixed /\ instruction.opcode = 243))
             => ~disable_interrupts']_vars

\* EI; EI has run: after the Exec of the second EI the enable latch is clear
C24_Witness ==
    /\ mbc.rom = ROM_new(<<251, 251, 5, 0>>)
    /\ steps = 4 /\ trap = "none" /\ state = OpRead_General /\ registers.pc = 2
    /\ instruction.opcode = 251
    /\ ~enable_interrupts /\ ~disable_interrupts


\* The RET that a call program reaches has run: it completed, or it panicked
RetRan ==
    /\ instruction.opcode = 201 /\ ~instruction.prefixed
    /\ state = OpRead_General \/ trap # "none"

\* C25: CALL a16 with PC = p after the operand fetch and SP = s, followed by
\* the RET at the call target, ends with PC = p and SP = s (p = $0006 in the
\* call programs); and the Exec of a conditional CALL whose condition is
\* false completes and changes neither SP, nor PC, nor the cartridge memory.
C25_CallRetRestores ==
    /\ [](\A sp \in StackPointers :
             (mbc.rom = ROM_new(CallProgram(sp)) /\ RetRan) =>
                /\ trap = "none"
                /\ registers.pc = 6
                /\ registers.sp = sp)
    /\ [][(/\ state = Exec /\ ~instruction.prefixed
           /\ instruction.opcode \in {196, 204, 212, 220}
           /\ instruction.arg.kind = "Addr16"
           /\ ~Cond(registers, (instruction.opcode \div 8) % 4))
          => /\ trap' = "none"
             /\ registers'.sp = registers.sp
             /\ registers'.pc = registers.pc
             /\ mbc' = mbc]_vars

\* ld SP,$C000; call $0007; ret on the bare ROM: the CALL stored nothing and
\* left SP = $BFFE, and the RET panicked on the absent byte it read there
C25_Witness ==
    /\ mbc.rom = ROM_new(CallProgram(49152)) /\ mbc.kind = "RomOnly"
    /\ RetRan /\ state = Exec /\ trap = "unwrap_none"
    /\ registers.pc = 8 /\ registers.sp = 49150


\* C26: no step aborts on a memory read that yields an absent value (a fetch
\* at a PC outside the ROM, a data or stack read of an unmapped cartridge-RAM
\* offset); the dispatch of an undefined opcode is the only way a step ends
\* the run.
C26_AbsentReadsDoNotAbort ==
    /\ [](trap \in {"none", "undefined_opcode"})
    /\ [][(steps' = steps + 1 /\ state # Exec /\ read_rom(mbc, registers.pc) = None)
          => trap' = "none" /\ state' # state]_vars

\* The division program has ended with A = 4 and PC = 12, one past the ROM:
\* the next step panicked in its opcode fetch
C26_Witness ==
    /\ IsDivRun /\ mbc.kind = "RomOnly"
    /\ state = OpRead_General /\ registers.pc = 12 /\ registers.a = 4
    /\ steps = 44 /\ trap = "unwrap_none"


\* The ROM byte at n bytes below PC
ByteBelowPC(n) == read_rom(mbc, (registers.pc + 65536 - n) % 65536)

ExecOfBit ==
    /\ state = Exec /\ instruction.prefixed /\ instruction.opcode \in 64 .. 127
    /\ state' = OpRead_General /\ trap' = "none"

\* C28: the flags an instruction's table entry leaves unchanged keep their
\* value: CPL, SCF and CCF keep Z; CPL keeps C; DAA keeps N; BIT n keeps C.
C28_UnchangedFlagsKept ==
    [][/\ ExecOf(47) => /\ zero(registers') = zero(registers)
                        /\ carry(registers') = carry(registers)
       /\ ExecOf(55) => zero(registers') = zero(registers)
       /\ ExecOf(63) => zero(registers') = zero(registers)
       /\ ExecOf(39) => neg(registers') = neg(registers)
       /\ ExecOfBit => carry(registers') = carry(registers)]_vars

\* xor A; cpl has run: A = 0xFF, N and H are set, and the Z that xor A had
\* set is clear
C28_Witness ==
    /\ mbc.rom = ROM_new(<<175, 47, 5, 0>>)
    /\ instruction.opcode = 47 /\ ~instruction.prefixed
    /\ state = OpRead_General /\ steps = 4 /\ registers.pc = 2 /\ trap = "none"
    /\ registers.a = 255 /\ registers.f = 96 /\ ~zero(registers)


\* C29: CP d leaves A unchanged and gives the flags of SUB d from the same
\* state: N = 1, Z iff a = d, H iff (a & 0x0F) < (d & 0x0F), C iff a < d; it
\* does not trap, also when a < d.
C29_CpFlagsOfSub ==
    [][ret'.op = "cp" =>
          /\ trap' = "none"
          /\ registers'.a = registers.a
          /\ neg(registers')
          /\ zero(registers') <=> registers.a = ret'.data
          /\ half_carry(registers') <=> (registers.a % 16) < (ret'.data % 16)
          /\ carry(registers') <=> registers.a < ret'.data
          /\ registers'.f = sub(registers, ret'.data).r.f]_vars

\* cp $01 has run on A = 0x0F: no borrow from bit 4, and H is set
C29_Witness ==
    /\ ret.op = "cp" /\ ret.data = 1 /\ steps = 1 /\ trap = "none"
    /\ registers.a = 15
    /\ neg(registers) /\ ~zero(registers) /\ ~carry(registers)
    /\ half_carry(registers)

\* A after DAA by the adjustment rule, from A and the flags before it
DaaRule(r) ==
    LET high == IF neg(r) THEN (IF carry(r) THEN 256 - 96 ELSE 0)
                ELSE (IF carry(r) \/ r.a > 153 THEN 96 ELSE 0)
        low == IF neg(r) THEN (IF half_carry(r) THEN 256 - 6 ELSE 0)
               ELSE (IF half_carry(r) \/ (r.a % 16) > 9 THEN 6 ELSE 0)
    IN  (r.a + high + low) % 256

\* C30: DAA with N = 0 adds 0x60 and sets C if C = 1 or A > 0x99, and adds
\* 0x06 if H = 1 or (A & 0x0F) > 0x09; with N = 1 it subtracts 0x60 if C = 1
\* and 0x06 if H = 1; the arithmetic wraps modulo 256 and never traps, Z is
\* set iff the final A is 0, and H is cleared.
C30_DaaAdjustment ==
    [][ret'.op = "daa" =>
          /\ trap' = "none"
          /\ registers'.a = DaaRule(registers)
          /\ (~neg(registers) /\ (carry(registers) \/ registers.a > 153))
                => carry(registers')
          /\ zero(registers') <=> registers'.a = 0
          /\ ~half_carry(registers')]_vars

\* daa has run on A = 0x0F with N = H = C = 0: A is still 0x0F, not 0x15
C30_Witness ==
    /\ ret.op = "daa" /\ steps = 1 /\ trap = "none"
    /\ registers.a = 15 /\ registers.f = 0


\* The pair that ADD HL,rr adds, by the field x of the opcode: BC, DE, HL, SP
PairOf(r, x) ==
    CASE x = 0 -> r.b * 256 + r.c
      [] x = 1 -> r.d * 256 + r.e
      [] x = 2 -> r.h * 256 + r.l
      [] OTHER -> r.sp

\* C31: ADD HL,rr sets HL to (HL + rr) mod 2^16, leaves Z unchanged, clears
\* N, sets H iff bit 11 carries into bit 12 and sets C iff HL + rr > 0xFFFF.
C31_AddHlFlags ==
    [][\A x \in 0 .. 3 :
          ExecOf(9 + 16 * x) =>
             LET hl == PairOf(registers, 2)
                 rr == PairOf(registers, x)
             IN  /\ PairOf(registers', 2) = (hl + rr) % 65536
                 /\ zero(registers') = zero(registers)
                 /\ ~neg(registers')
                 /\ half_carry(registers') <=> (hl % 4096) + (rr % 4096) > 4095
                 /\ carry(registers') <=> hl + rr > 65535]_vars

\* ld B,$0F; ld C,$01; ld H,$C0; scf; add HL,BC has run: HL = 0xCF01 without
\* a carry out of bit 15, and C is still set
C31_Witness ==
    /\ instruction.opcode = 9 /\ ~instruction.prefixed
    /\ state = OpRead_General /\ steps = 16 /\ registers.pc = 10 /\ trap = "none"
    /\ registers.h = 207 /\ registers.l = 1 /\ registers.b = 15 /\ registers.c = 1
    /\ carry(registers)


\* C32: each of RLCA, RLA, RRCA and RRA clears Z, N and H and sets C to the
\* bit rotated out of A: bit 7 for RLCA and RLA, bit 0 for RRCA and RRA.
C32_RotateAFlags ==
    [][ret'.op \in {"rlca", "rla", "rrca", "rra"} =>
          /\ trap' = "none"
          /\ ~zero(registers') /\ ~neg(registers') /\ ~half_carry(registers')
          /\ carry(registers') <=>
                IF ret'.op \in {"rlca", "rla"} THEN Bit(registers.a, 7) = 1
                ELSE Bit(registers.a, 0) = 1]_vars

\* rrca has run on A = 0x0F: A = 0x87, bit 0 went out, and C is clear
C32_Witness ==
    /\ ret.op = "rrca" /\ steps = 1 /\ trap = "none"
    /\ registers.a = 135 /\ registers.f = 0


\* The result and the carry-out of the CB function f (0 .. 7: RLC, RRC, RL,
\* RR, SLA, SRA, SWAP, SRL) on the value v with carry-in c, by the function
\* table
CbRule(f, v, c) ==
    CASE f = 0 -> [value |-> ((v * 2) % 256) + (v \div 128), carry |-> v \div 128]
      [] f = 1 -> [value |-> (v \div 2) + 128 * (v % 2), carry |-> v % 2]
      [] f = 2 -> [value |-> ((v * 2) % 256) + c, carry |-> v \div 128]
      [] f = 3 -> [value |-> (v \div 2) + 128 * c, carry |-> v % 2]
      [] f = 4 -> [value |-> (v * 2) % 256, carry |-> v \div 128]
      [] f = 5 -> [value |-> (v \div 2) + 128 * (v \div 128), carry |-> v % 2]
      [] f = 6 -> [value |-> (v % 16) * 16 + (v \div 16), carry |-> 0]
      [] OTHER -> [value |-> v \div 2, carry |-> v % 2]

\* The step that is taken is the Exec of a CB instruction below 0x40
ExecOfCbShift ==
    /\ state = Exec /\ instruction.prefixed /\ instruction.opcode < 64
    /\ steps' = steps + 1

\* C33: RLC, RRC, RL, RR, SLA, SRA, SWAP and SRL on a register or on the
\* (HL) byte complete, leave in the target the result of the function table
\* and in C its carry-out, set Z iff the result is 0 and clear N and H.
C33_CbShiftsAndRotates ==
    [][ExecOfCbShift =>
          LET f == instruction.opcode \div 8
              t == instruction.opcode % 8
              rule == CbRule(f, registers[RegNames[t + 1]], carry_bit(registers))
          IN  /\ trap' = "none"
              /\ t # 6 =>
                    /\ registers'[RegNames[t + 1]] = rule.value
                    /\ carry_bit(registers') = rule.carry
                    /\ zero(registers') <=> rule.value = 0
                    /\ ~neg(registers') /\ ~half_carry(registers')]_vars

\* ld H,$C0 ... then sra H has run: H = 0x60, bit 7 is not preserved
C33_Witness ==
    /\ instruction.prefixed /\ instruction.opcode = 44
    /\ state = OpRead_General /\ steps = 17 /\ trap = "none"
    /\ registers.h = 96 /\ ~carry(registers) /\ ~zero(registers)



\* C34: BIT n changes only flags: after a completed CB BIT n the tested
\* register, or the cartridge-RAM byte at (HL), has the value it had before
\* the instruction.
C34_BitKeepsTarget ==
    [][ExecOfBit =>
          LET t == instruction.opcode % 8
          IN  IF t = 6
              THEN read_ram(mbc', PairOf(registers, 2)) = read_ram(mbc, PairOf(registers, 2))
              ELSE registers'[RegNames[t + 1]] = registers[RegNames[t + 1]]]_vars

\* BIT 0,B has run with B = 0x0F: Z is clear, H is set, and B holds the
\* tested bit
C34_Witness ==
    /\ instruction.prefixed /\ instruction.opcode = 64
    /\ state = OpRead_General /\ steps = 17 /\ trap = "none"
    /\ registers.b = 1 /\ registers.c = 1 /\ registers.h = 192
    /\ ~zero(registers) /\ half_carry(registers)



\* C35: after the Exec phase of every instruction that completes, prefixed
\* ones included, exactly one cycle count has been passed to
\* pause_for_cycles: one of the instruction's two counts, and 8 for a
\* prefixed instruction.
C35_CyclesPassedOnce ==
    [][(state = Exec /\ steps' = steps + 1 /\ trap' = "none") =>
          /\ Len(paused') = 1
          /\ IF instruction.prefixed
             THEN paused' = <<8>>
             ELSE paused'[1] \in {instruction.cycles[1], instruction.cycles[2]}]_vars

\* BIT 0,A has run to completion and no cycle count was passed
C35_Witness ==
    /\ instruction.prefixed /\ instruction.opcode = 71
    /\ state = OpRead_General /\ steps = 17 /\ trap = "none"
    /\ zero(registers) /\ paused = << >>



-----------------------------------------------------------------------------
(* Cartridge RAM through MBC::write_ram and MBC::read_ram *)

\* The RAM size Cartridge::load declares for the banked controllers
RamSize == 8192

\* Offsets into cartridge RAM: the first bytes, the last declared byte and
\* the declared size itself
RamOffsets == {0, 1, RamSize - 1, RamSize}

RamData == {0, 165}

\* A 16 KiB image: shorter than the offsets of the upper control registers
ShortRom == [len |-> 16384, over |-> << >>, seed |-> 0]

\* The controllers Cartridge::load can build, over the banked images and
\* the short one
InitRam ==
    /\ Idle
    /\ registers = Registers_init
    /\ overflow_checks \in BOOLEAN
    /\ \E rom \in BankedRoms \cup {ShortRom} :
          mbc \in {MBC_RomOnly(rom)}
                  \cup {MBC_Banked(kind, rom, RamSize) : kind \in MbcKinds \ {"RomOnly"}}
    /\ console = Console_start(TRUE)

\* MBC::write_ram(offset, data)
WriteRam(offset, data) ==
    /\ trap = "none"
    /\ mbc' = write_ram(mbc, offset, data).mbc
    /\ trap' = write_ram(mbc, offset, data).trap
    /\ ret' = Ret("write_ram", offset, data, write_ram(mbc, offset, data).result)
    /\ UNCHANGED console /\ MbcFrame

\* MBC::read_ram(offset)
ReadRam(offset) ==
    /\ trap = "none"
    /\ ret' = Ret("read_ram", offset, 0, read_ram(mbc, offset))
    /\ UNCHANGED <<mbc, console, trap>> /\ MbcFrame

NextRam ==
    \/ \E offset \in RamOffsets, data \in RamData : WriteRam(offset, data)
    \/ \E offset \in RamOffsets : ReadRam(offset)
    \/ \E offset \in {0, 12288, 24576}, data \in {0, 1, 10} : WriteRom(offset, data)

SpecRam == InitRam /\ [][NextRam]_vars

\* C36: while the RAM-enable flag of a banked controller is false,
\* write_ram(offset, byte) leaves the cartridge RAM unchanged and does not
\* trap, for every offset and byte.
C36_DisabledRamIgnoresWrites ==
    [][(ret'.op = "write_ram" /\ mbc.kind # "RomOnly" /\ ~mbc.ram_enabled) =>
          /\ trap' = "none"
          /\ mbc'.ram = mbc.ram]_vars

\* write_ram(0, 0xA5) on an MBC1 whose RAM was never enabled has panicked
C36_Witness ==
    /\ ret = Ret("write_ram", 0, 165, "Err")
    /\ mbc.kind = "MBC1" /\ ~mbc.ram_enabled
    /\ trap = "index_out_of_bounds"

\* C37: on a controller whose RAM was declared with size n > 0, for every
\* offset o < n and byte b, write_ram(o, b) reports success and read_ram(o)
\* then returns b.
C37_RamWriteReadBack ==
    [][(ret'.op = "write_ram" /\ mbc.kind # "RomOnly" /\ ret'.addr < RamSize) =>
          /\ trap' = "none"
          /\ ret'.value = "Ok"
          /\ read_ram(mbc', ret'.addr) = ret'.data]_vars

\* write_ram(1, 0xA5) on an enabled MBC5 with 8 KiB declared has returned
\* Err, and read_ram(1) is None
C37_Witness ==
    /\ ret = Ret("write_ram", 1, 165, "Err")
    /\ mbc.kind = "MBC5" /\ mbc.ram_enabled
    /\ trap = "none" /\ read_ram(mbc, 1) = None

\* C38: a write_ram whose offset is at or beyond the RAM length returns a
\* failure, leaves the RAM unchanged and never traps.
C38_RamWriteOutOfRange ==
    [][(ret'.op = "write_ram" /\ mbc.kind # "RomOnly" /\ ret'.addr >= Len(mbc.ram)) =>
          /\ trap' = "none"
          /\ ret'.value = "Err"
          /\ mbc'.ram = mbc.ram]_vars

\* write_ram at the offset equal to the RAM length has panicked on an
\* enabled MBC2 instead of returning
C38_Witness ==
    /\ ret.op = "write_ram" /\ ret.addr = Len(mbc.ram) /\ ret.data = 0
    /\ mbc.kind = "MBC2" /\ mbc.ram_enabled
    /\ trap = "index_out_of_bounds"



\* C39: write_rom(offset, data) completes without a trap for every
\* controller, every offset in 0x0000-0x7FFF and every data byte.
C39_WriteRomNeverTraps ==
    [][ret'.op = "write_rom" => trap' = "none"]_vars

\* write_rom(0x6000, 1) on an MBC3 over a 16 KiB image has panicked in the
\* latch arm's read of rom[offset]
C39_Witness ==
    /\ ret = Ret("write_rom", 24576, 1, 0)
    /\ mbc.kind = "MBC3" /\ mbc.rom = ShortRom
    /\ trap = "index_out_of_bounds"



\* The step that is taken is the Exec of JR r8, or of a JR cc,r8 whose
\* condition holds
ExecOfTakenJr ==
    /\ state = Exec /\ ~instruction.prefixed /\ steps' = steps + 1
    /\ instruction.opcode \in {24, 32, 40, 48, 56}
    /\ instruction.arg.kind = "Offset8"
    /\ instruction.opcode = 24 \/ Cond(registers, (instruction.opcode \div 8) % 4)

\* C40: JR r8 and a taken JR cc,r8 set PC to (p + e) mod 2^16, where p is
\* the PC after the operand fetch and e is the signed operand, for every e
\* in -128 .. 127, without trapping.
C40_RelativeJumpTarget ==
    [][ExecOfTakenJr =>
          /\ trap' = "none"
          /\ registers'.pc = (registers.pc + instruction.arg.val + 65536) % 65536]_vars

\* JR -128 at address 0 has run in a build without overflow checks: PC went
\* forward from 2 to 130
C40_Witness ==
    /\ instruction.opcode = 24 /\ ~instruction.prefixed
    /\ instruction.arg.kind = "Offset8" /\ instruction.arg.val = -128
    /\ state = OpRead_General /\ trap = "none" /\ ~overflow_checks
    /\ steps = 3 /\ registers.pc = 130

====
